---- MODULE Spec2Model ----
(***************************************************************************)
(* Model of the PDF text extractor server (server code as listed in        *)
(* README.md, older listing in unnamed/part_000), of its normalizers and   *)
(* of the browser client (public/app.js).                                  *)
(*                                                                         *)
(* JavaScript values are tagged records: [t |-> type, v |-> content].      *)
(* Strings are TLA+ strings, arrays are sequences, objects are functions   *)
(* from property names to values.  A call that raises is the value Throw.  *)
(***************************************************************************)
EXTENDS Integers, Sequences, FiniteSets, TLC

VARIABLES
  pText,       \* parseMarkdownToSegments: argument `text`
  pRemaining,  \* parseMarkdownToSegments: local `remaining`
  pStyle,      \* parseMarkdownToSegments: local `currentStyle`
  pSegments,   \* parseMarkdownToSegments: local `segments`
  pResult,     \* parseMarkdownToSegments: returned array
  pPc,         \* parseMarkdownToSegments: position of the call
  lineArg,     \* normalizeLine: argument `lineData`
  lineIdx,     \* normalizeLine: argument `lineIndex`
  lineOut,     \* normalizeLine(lineArg, lineIdx)
  lineAgain,   \* normalizeLine(lineOut, lineIdx)
  linePc,      \* position of the normalizeLine round trip
  request,     \* /api/extract: what the request carries (file, API key)
  mistralPayload, \* /api/extract: `mistralPayload`, the OCR provider's answer
  normalized,  \* /api/extract: `normalized`
  response,    \* /api/extract: the response sent
  reqPc,       \* /api/extract: position of the handler
  ocrCalls,    \* /api/extract: requests sent to the OCR provider
  tblArg,      \* normalizeTable: argument `tableData`
  tblIdx,      \* normalizeTable: argument `index`
  tblOut,      \* normalizeTable(tblArg, tblIdx)
  tblPc,       \* position of the normalizeTable call
  exRequest,   \* /api/export-docx: the request (body and API key header)
  exPc,        \* /api/export-docx: position of the handler
  exCursor,    \* /api/export-docx: index of the image the caption loop is at
  descriptions, \* /api/export-docx: `descriptions`, captions by key
  inFlight,    \* /api/export-docx: describeImageWithVision calls not yet settled
  visionCalls, \* /api/export-docx: the calls issued, with their outcome
  exResponse,  \* /api/export-docx: the response sent
  lastResult,  \* app.js: `lastResult`
  statusEl,    \* app.js: text and tone of the status element
  previewEl,   \* app.js: what the preview element shows
  textOutput,  \* app.js: value of the plain text area
  storedKey,   \* app.js: an API key is saved in localStorage
  uploads,     \* app.js: /api/extract requests started
  describes,   \* app.js: /api/describe-image requests started
  extractFetches,  \* app.js: /api/extract requests not yet settled
  describeFetches, \* app.js: /api/describe-image requests not yet settled
  exportFetches,   \* app.js: /api/export-docx requests not yet settled
  exportsSent,     \* app.js: the bodies of the /api/export-docx requests sent
  extractions      \* app.js: how the settled extraction attempts ended

parseVars == <<pText, pRemaining, pStyle, pSegments, pResult, pPc>>
lineVars == <<lineArg, lineIdx, lineOut, lineAgain, linePc>>
extractVars == <<request, mistralPayload, normalized, response, reqPc, ocrCalls>>
tableVars == <<tblArg, tblIdx, tblOut, tblPc>>
exportVars == <<exRequest, exPc, exCursor, descriptions, inFlight, visionCalls,
                exResponse>>
uiVars == <<lastResult, statusEl, previewEl, textOutput, storedKey, uploads, describes,
            extractFetches, describeFetches, exportFetches, exportsSent, extractions>>
vars == <<pText, pRemaining, pStyle, pSegments, pResult, pPc,
          lineArg, lineIdx, lineOut, lineAgain, linePc,
          request, mistralPayload, normalized, response, reqPc, ocrCalls,
          tblArg, tblIdx, tblOut, tblPc,
          exRequest, exPc, exCursor, descriptions, inFlight, visionCalls,
          exResponse,
          lastResult, statusEl, previewEl, textOutput, storedKey, uploads, describes,
          extractFetches, describeFetches, exportFetches, exportsSent, extractions>>

----------------------------------------------------------------------------
(* Bounds of the explored inputs *)

MaxWord == 2       \* longest marker-free word in a parsed line
MaxTokens == 3     \* longest token string given to the parser
MaxPages == 2      \* most page-like entries in a payload
MaxLineIndex == 1  \* largest lineIndex given to normalizeLine
MaxSegments == 2   \* most raw segments in a line given to normalizeLine
MaxTextLines == 2  \* most lines in a top-level text field

----------------------------------------------------------------------------
(* JavaScript values *)

Undef == [t |-> "undefined"]
Null == [t |-> "null"]
Throw == [t |-> "throw"]
Str(s) == [t |-> "string", v |-> s]
Num(n) == [t |-> "number", v |-> n]
Bool(b) == [t |-> "boolean", v |-> b]
Arr(q) == [t |-> "array", v |-> q]
Obj(r) == [t |-> "object", v |-> r]
EmptyObj == Obj([k \in {} |-> Undef])

IsStr(x) == x.t = "string"
IsNum(x) == x.t = "number"
IsArr(x) == x.t = "array"
IsObj(x) == x.t = "object"
Nullish(x) == x.t \in {"undefined", "null"}

\* ToBoolean
Truthy(x) ==
  CASE x.t \in {"undefined", "null"} -> FALSE
    [] x.t = "string" -> x.v # ""
    [] x.t = "number" -> x.v # 0
    [] x.t = "boolean" -> x.v
    [] OTHER -> TRUE

\* a ?? b
Coalesce(a, b) == IF Nullish(a) THEN b ELSE a
\* a || b
OrElse(a, b) == IF Truthy(a) THEN a ELSE b

\* o.k for a non-nullish o (o.k on undefined or null raises a TypeError)
Get(o, k) == IF o.t = "object" /\ k \in DOMAIN o.v THEN o.v[k] ELSE Undef
\* o?.k
OptGet(o, k) == IF Nullish(o) THEN Undef ELSE Get(o, k)
\* { ...a, ...b }
Spread(a, b) ==
  Obj([k \in (DOMAIN a.v) \cup (DOMAIN b.v) |->
         IF k \in DOMAIN b.v THEN b.v[k] ELSE a.v[k]])

----------------------------------------------------------------------------
(* Strings *)

NBSP == "~"   \* stands for U+00A0, which a TLA+ string cannot hold
WhiteSpace == {" ", "\n", "\r", "\t", NBSP}

CharAt(s, i) == SubSeq(s, i + 1, i + 1)
\* substring(from) that cuts nothing
SubstringKeepAll(s, from) == s
\* s.substring(from)
Substring(s, from) == SubSeq(s, from + 1, Len(s))
\* s.substring(from, to)
Substring2(s, from, to) == SubSeq(s, from + 1, to)
\* s.startsWith(p)
StartsWith(s, p) == Len(p) <= Len(s) /\ SubSeq(s, 1, Len(p)) = p
\* s.endsWith(p)
EndsWith(s, p) == Len(p) <= Len(s) /\ SubSeq(s, Len(s) - Len(p) + 1, Len(s)) = p

SetMin(S) == CHOOSE m \in S : \A n \in S : m <= n

\* s.indexOf(sub): first position, counted from 0, or -1
IndexOf(s, sub) ==
  LET hits == {i \in 0..(Len(s) - Len(sub)) : SubSeq(s, i + 1, i + Len(sub)) = sub}
  IN IF hits = {} THEN -1 ELSE SetMin(hits)

\* s.includes(sub)
Includes(s, sub) == IndexOf(s, sub) # -1

RECURSIVE TrimStart(_)
TrimStart(s) ==
  IF s # "" /\ CharAt(s, 0) \in WhiteSpace THEN TrimStart(Substring(s, 1)) ELSE s

RECURSIVE TrimEnd(_)
TrimEnd(s) ==
  IF s # "" /\ CharAt(s, Len(s) - 1) \in WhiteSpace
  THEN TrimEnd(Substring2(s, 0, Len(s) - 1)) ELSE s

\* s.trim()
Trim(s) == TrimEnd(TrimStart(s))

\* s.replace(/c/g, r) for a one-character pattern c
RECURSIVE ReplaceChar(_, _, _)
ReplaceChar(s, c, r) ==
  IF s = "" THEN ""
  ELSE (IF CharAt(s, 0) = c THEN r ELSE CharAt(s, 0)) \o ReplaceChar(Substring(s, 1), c, r)

\* s.split(sep) for a one-character separator
RECURSIVE Split(_, _)
Split(s, sep) ==
  LET i == IndexOf(s, sep)
  IN IF i = -1 THEN <<s>>
     ELSE <<Substring2(s, 0, i)>> \o Split(Substring(s, i + 1), sep)

\* parts.join(sep) on a sequence of strings
RECURSIVE Join(_, _)
Join(parts, sep) ==
  IF parts = <<>> THEN ""
  ELSE IF Len(parts) = 1 THEN parts[1]
  ELSE parts[1] \o sep \o Join(Tail(parts), sep)

\* s.toLowerCase(), on the letters A-Z
UpperLetters == "ABCDEFGHIJKLMNOPQRSTUVWXYZ"
LowerLetters == "abcdefghijklmnopqrstuvwxyz"
Digits == "0123456789"

RECURSIVE ToLowerCase(_)
ToLowerCase(s) ==
  IF s = "" THEN ""
  ELSE LET c == CharAt(s, 0)
           i == IndexOf(UpperLetters, c)
       IN (IF i = -1 THEN c ELSE CharAt(LowerLetters, i)) \o ToLowerCase(Substring(s, 1))

\* s.replace(/[^...]/g, '') : keeps the characters of s that `allowed` holds
RECURSIVE KeepChars(_, _)
KeepChars(s, allowed) ==
  IF s = "" THEN ""
  ELSE (IF Includes(allowed, CharAt(s, 0)) THEN CharAt(s, 0) ELSE "")
         \o KeepChars(Substring(s, 1), allowed)

IsDigits(s) == s # "" /\ \A i \in 0..(Len(s) - 1) : Includes(Digits, CharAt(s, i))

\* /^\d+(\.\d+)?$/.test(s)
IsDecimal(s) ==
  LET dot == IndexOf(s, ".")
  IN IF dot = -1 THEN IsDigits(s)
     ELSE IsDigits(Substring2(s, 0, dot)) /\ IsDigits(Substring(s, dot + 1))

\* String(n) for an integer n
RECURSIVE NatToString(_)
NatToString(n) ==
  IF n < 10 THEN CharAt(Digits, n)
  ELSE NatToString(n \div 10) \o CharAt(Digits, n % 10)

IntToString(n) == IF n < 0 THEN "-" \o NatToString(0 - n) ELSE NatToString(n)

\* String(x)
RECURSIVE ToStringJS(_)
ToStringJS(x) ==
  CASE x.t = "string" -> x.v
    [] x.t = "number" -> IntToString(x.v)
    [] x.t = "boolean" -> IF x.v THEN "true" ELSE "false"
    [] x.t = "undefined" -> "undefined"
    [] x.t = "null" -> "null"
    [] x.t = "array" ->
         Join([i \in 1..Len(x.v) |->
                 IF Nullish(x.v[i]) THEN "" ELSE ToStringJS(x.v[i])], ",")
    [] OTHER -> "[object Object]"

NaN == [t |-> "nan"]

\* the integer a string of digits denotes
RECURSIVE DigitsToNat(_)
DigitsToNat(s) ==
  IF s = "" THEN 0
  ELSE 10 * DigitsToNat(Substring2(s, 0, Len(s) - 1)) + IndexOf(Digits, CharAt(s, Len(s) - 1))

\* Number(x), on the integers
ToNumber(x) ==
  LET ofString(s) ==
        LET trimmed == Trim(s)
        IN IF trimmed = "" THEN Num(0)
           ELSE IF IsDigits(trimmed) THEN Num(DigitsToNat(trimmed))
           ELSE NaN
  IN CASE x.t = "number" -> x
       [] x.t = "boolean" -> IF x.v THEN Num(1) ELSE Num(0)
       [] x.t = "null" -> Num(0)
       [] x.t = "undefined" -> NaN
       [] OTHER -> ofString(ToStringJS(x))

\* array[i] / string[i]
Index(x, i) ==
  CASE x.t = "array" /\ i < Len(x.v) -> x.v[i + 1]
    [] x.t = "string" /\ i < Len(x.v) -> Str(CharAt(x.v, i))
    [] OTHER -> Undef

\* array.map(f) where a call of f may raise: `results` holds what the calls
\* give; the array of results, or Throw
MapOrThrow(results) ==
  IF \E i \in 1..Len(results) : results[i].t = "throw" THEN Throw ELSE Arr(results)

\* array.filter(Boolean)
FilterBoolean(q) == SelectSeq(q, LAMBDA x : Truthy(x))

\* array.map(f).filter(Boolean) where a call of f may raise
FilterOrThrow(mapped) ==
  IF mapped.t = "throw" THEN Throw ELSE Arr(FilterBoolean(mapped.v))

----------------------------------------------------------------------------
(* Style defaults *)

defaultSegmentStyle ==
  Obj([fontSize |-> Str("16px"),
       fontWeight |-> Num(400),
       fontStyle |-> Str("normal"),
       fontFamily |-> Str("Inter, sans-serif"),
       letterSpacing |-> Str("0.15px"),
       textDecoration |-> Str("none")])

fallbackFontSize == 16

\* buildSimpleSegment without the defaults under the overrides
buildSimpleSegmentBare(text, styleOverrides) ==
  Obj([text |-> Str(text), style |-> styleOverrides, meta |-> EmptyObj])

\* buildSimpleSegment(text, styleOverrides = {})
buildSimpleSegment(text, styleOverrides) ==
  Obj([text |-> Str(text),
       style |-> Spread(defaultSegmentStyle, styleOverrides),
       meta |-> EmptyObj])

----------------------------------------------------------------------------
(* Style normalizer *)

normalizeAlignment(value) ==
  IF ~Truthy(value) THEN Null
  ELSE LET raw == ToLowerCase(Trim(ToStringJS(value)))
       IN CASE raw \in {"left", "start", "l", "align_left"} -> Str("left")
            [] raw \in {"right", "end", "r", "align_right"} -> Str("right")
            [] raw \in {"center", "centre", "middle", "c", "align_center"} -> Str("center")
            [] raw \in {"justify", "justified", "full", "distributed", "block"} -> Str("justify")
            [] OTHER -> Null

\* normalizeTextDecoration(segment = {})
normalizeTextDecoration(segmentArg) ==
  LET segment == IF segmentArg = Undef THEN EmptyObj ELSE segmentArg
      style == Get(segment, "style")
      rawDecoration ==
        OrElse(Get(segment, "textDecoration"),
        OrElse(Get(segment, "text_decoration"),
        OrElse(Get(segment, "textDecorationLine"),
        OrElse(Get(segment, "text_decoration_line"),
        OrElse(Get(segment, "decoration"),
        OrElse(OptGet(style, "textDecoration"),
               OptGet(style, "text_decoration")))))))
      textDecorStr == IF IsStr(rawDecoration) THEN ToLowerCase(rawDecoration.v) ELSE ""
      fromUnderline == Includes(textDecorStr, "underline")
      fromStrike == Includes(textDecorStr, "line-through")
                      \/ Includes(textDecorStr, "strikethrough")
      hasUnderline ==
        \/ Truthy(Get(segment, "underline"))
        \/ Truthy(Get(segment, "isUnderline"))
        \/ Truthy(Get(segment, "underlined"))
        \/ fromUnderline
      hasStrike ==
        \/ Truthy(Get(segment, "strikethrough"))
        \/ Truthy(Get(segment, "strike"))
        \/ Truthy(Get(segment, "isStrike"))
        \/ Truthy(Get(segment, "isStrikethrough"))
        \/ fromStrike
  IN CASE hasUnderline /\ hasStrike -> Str("underline line-through")
       [] hasUnderline /\ ~hasStrike -> Str("underline")
       [] ~hasUnderline /\ hasStrike -> Str("line-through")
       [] OTHER -> Str("none")

\* toPixelString(value, fallback = fallbackFontSize)
toPixelString(value) ==
  CASE value.t = "number" -> Str(IntToString(value.v) \o "px")
    [] value.t = "string" ->
         LET trimmed == Trim(value.v)
         IN IF EndsWith(trimmed, "px") THEN Str(trimmed)
            ELSE IF IsDecimal(trimmed) THEN Str(trimmed \o "px")
            ELSE Str(trimmed)
    [] OTHER -> Str(IntToString(fallbackFontSize) \o "px")

----------------------------------------------------------------------------
(* Inline span parser: parseMarkdownToSegments *)

\* `currentStyle` at the start of a call
initialStyle ==
  Obj([fontWeight |-> Get(defaultSegmentStyle, "fontWeight"),
       fontStyle |-> Get(defaultSegmentStyle, "fontStyle"),
       textDecoration |-> Get(defaultSegmentStyle, "textDecoration")])

\* a doubled marker read as a bold toggle and an italic toggle
toggleBoldAndItalic(style) ==
  Spread(style, Obj([fontWeight |->
                       IF Get(style, "fontWeight") = Num(600) THEN Num(400) ELSE Num(600),
                     fontStyle |->
                       IF Get(style, "fontStyle") = Str("italic") THEN Str("normal")
                       ELSE Str("italic")]))

toggleBold(style) ==
  Spread(style, Obj([fontWeight |->
    IF Get(style, "fontWeight") = Num(600) THEN Num(400) ELSE Num(600)]))

toggleItalic(style) ==
  Spread(style, Obj([fontStyle |->
    IF Get(style, "fontStyle") = Str("italic") THEN Str("normal") ELSE Str("italic")]))

setDecoration(style, value) == Spread(style, Obj([textDecoration |-> Str(value)]))

\* One iteration of `while (remaining.length > 0)`.
\* st = [remaining, style, segments, done]
parseIteration(st) ==
  LET remaining == st.remaining
      bold1 == IndexOf(remaining, "**")
      bold2 == IndexOf(remaining, "__")
      italic1 == IndexOf(remaining, "*")
      italic2 == IndexOf(remaining, "_")
      underlineStart == IndexOf(remaining, "<u>")
      underlineEnd == IndexOf(remaining, "</u>")
      indices == {bold1, bold2, italic1, italic2, underlineStart, underlineEnd} \ {-1}
  IN IF indices = {}
     THEN [remaining |-> remaining,
           style |-> st.style,
           segments |-> Append(st.segments, buildSimpleSegment(remaining, st.style)),
           done |-> TRUE]
     ELSE
       LET nextIndex == SetMin(indices)
           pushed == IF nextIndex > 0
                     THEN Append(st.segments,
                            buildSimpleSegment(Substring2(remaining, 0, nextIndex), st.style))
                     ELSE st.segments
           next(style, rest) ==
             [remaining |-> rest, style |-> style, segments |-> pushed, done |-> FALSE]
       IN CASE nextIndex = bold1 ->
                 next(toggleBold(st.style), Substring(remaining, nextIndex + 2))
            [] nextIndex # bold1 /\ nextIndex = bold2 ->
                 next(toggleBold(st.style), Substring(remaining, nextIndex + 2))
            [] nextIndex \notin {bold1, bold2} /\ nextIndex = italic1 ->
                 IF StartsWith(remaining, "**")
                 THEN next(toggleBold(st.style), Substring(remaining, 2))
                 ELSE next(toggleItalic(st.style),
                           Substring(remaining, 1))
            [] nextIndex \notin {bold1, bold2, italic1} /\ nextIndex = italic2 ->
                 IF StartsWith(remaining, "__")
                 THEN next(toggleBold(st.style), Substring(remaining, 2))
                 ELSE next(toggleItalic(st.style),
                           Substring(remaining, 1))
            [] nextIndex \notin {bold1, bold2, italic1, italic2}
               /\ nextIndex = underlineStart ->
                 next(setDecoration(st.style, "underline"),
                      Substring(remaining, 3))
            [] OTHER ->
                 next(setDecoration(st.style, "none"),
                      Substring(remaining, 4))

\* segments.filter(s => s.text)
dropEmptyText(segments) == SelectSeq(segments, LAMBDA s : Truthy(Get(s, "text")))

RECURSIVE parseLoop(_)
parseLoop(st) ==
  IF st.done \/ Len(st.remaining) = 0 THEN st.segments
  ELSE parseLoop(parseIteration(st))

\* parseMarkdownToSegments(text), as a sequence of segments
parseMarkdownToSegments(text) ==
  IF text = "" THEN <<>>
  ELSE dropEmptyText(parseLoop(
         [remaining |-> text, style |-> initialStyle, segments |-> <<>>, done |-> FALSE]))

----------------------------------------------------------------------------
(* Table normalizer *)

\* escapeHtml(value)
RECURSIVE escapeChars(_)
escapeChars(s) ==
  IF s = "" THEN ""
  ELSE LET c == CharAt(s, 0)
       IN (CASE c = "&" -> "&amp;"
             [] c = "<" -> "&lt;"
             [] c = ">" -> "&gt;"
             [] c = "\"" -> "&quot;"
             [] OTHER -> c) \o escapeChars(Substring(s, 1))

escapeHtml(value) == escapeChars(ToStringJS(OrElse(value, Str(""))))

\* buildCellText(cell)
buildCellText(cell) ==
  IF Nullish(cell) THEN ""
  ELSE IF IsStr(cell) THEN cell.v
  ELSE ToStringJS(OrElse(Get(cell, "text"),
                  OrElse(Get(cell, "content"),
                  OrElse(Get(cell, "value"),
                  OrElse(Get(cell, "plain_text"), Str(""))))))

\* the cell callback of htmlRows
cellHtml(cell) ==
  IF Nullish(cell) THEN "<td></td>"
  ELSE
    LET colspan == OrElse(Get(cell, "colspan"),
                   OrElse(Get(cell, "col_span"), Get(cell, "span_cols")))
        rowspan == OrElse(Get(cell, "rowspan"),
                   OrElse(Get(cell, "row_span"), Get(cell, "span_rows")))
        tag == IF Truthy(OrElse(Get(cell, "header"),
                         OrElse(Get(cell, "is_header"), Get(cell, "th"))))
               THEN "th" ELSE "td"
        attr(name, span) ==
          IF Truthy(span) /\ IsNum(ToNumber(span)) /\ ToNumber(span).v > 1
          THEN <<name \o "=\"" \o IntToString(ToNumber(span).v) \o "\"">>
          ELSE <<>>
        attrs == attr("colspan", colspan) \o attr("rowspan", rowspan)
        attrStr == IF Len(attrs) > 0 THEN " " \o Join(attrs, " ") ELSE ""
    IN "<" \o tag \o attrStr \o ">" \o escapeChars(buildCellText(cell))
         \o "</" \o tag \o ">"

\* normalizeTable(tableData, index = 0): a Table, or Null
normalizeTable(tableData, index) ==
  IF ~Truthy(tableData) THEN Null
  ELSE
    LET rows == OrElse(Get(tableData, "rows"),
                OrElse(Get(tableData, "data"),
                OrElse(Get(tableData, "cells"),
                OrElse(Get(tableData, "content"),
                OrElse(Get(tableData, "table"), Arr(<<>>))))))
    IN IF ~IsArr(rows) \/ Len(rows.v) = 0 THEN Null
       ELSE
         LET geometry == Get(tableData, "geometry")
             boundingBox == OptGet(geometry, "bounding_box")
             topLeft == OptGet(geometry, "top_left")
             bbox == IF Truthy(boundingBox) THEN boundingBox ELSE Null
             yPos ==
               CASE Truthy(boundingBox) -> OrElse(Index(boundingBox, 1), Num(0))
                 [] ~Truthy(boundingBox) /\ Truthy(topLeft) ->
                      OrElse(Get(topLeft, "y"), Num(0))
                 [] ~Truthy(boundingBox) /\ ~Truthy(topLeft)
                    /\ IsNum(Get(tableData, "y")) -> Get(tableData, "y")
                 [] ~Truthy(boundingBox) /\ ~Truthy(topLeft)
                    /\ ~IsNum(Get(tableData, "y"))
                    /\ IsNum(Get(tableData, "top_left_y")) -> Get(tableData, "top_left_y")
                 [] OTHER -> Num(0)
             rowCells(row) ==
               IF IsArr(row) THEN row
               ELSE IF IsArr(OptGet(row, "cells")) THEN Get(row, "cells")
               ELSE Null
             normalizedRows ==
               FilterBoolean([i \in 1..Len(rows.v) |-> rowCells(rows.v[i])])
             rowHtml(row) ==
               "<tr>" \o Join([j \in 1..Len(row.v) |-> cellHtml(row.v[j])], "") \o "</tr>"
             htmlRows ==
               Join([i \in 1..Len(normalizedRows) |-> rowHtml(normalizedRows[i])], "")
             rowText(row) ==
               Join([j \in 1..Len(row.v) |-> buildCellText(row.v[j])], "\t")
         IN IF Len(normalizedRows) = 0 THEN Null
            ELSE Obj([id |-> OrElse(Get(tableData, "id"),
                             OrElse(Get(tableData, "table_id"),
                                    Str("table-" \o IntToString(index)))),
                      html |-> Str("<table>" \o htmlRows \o "</table>"),
                      text |-> Str(Join([i \in 1..Len(normalizedRows) |->
                                           rowText(normalizedRows[i])], "\n")),
                      y |-> yPos,
                      boundingBox |-> bbox])

----------------------------------------------------------------------------
(* Line normalizer *)

\* the segment callback of normalizeLine: a Segment, Null (dropped) or Throw
normalizeSegment(segment, lineData, lineIndex) ==
  IF ~Truthy(segment) THEN Null
  ELSE
    LET text == Coalesce(Get(segment, "text"),
                Coalesce(Get(segment, "content"),
                Coalesce(Get(segment, "value"), Str(""))))
        fontFamily == Coalesce(Get(segment, "fontFamily"),
                      Coalesce(Get(segment, "fontName"),
                               Get(defaultSegmentStyle, "fontFamily")))
    IN IF ~IsStr(text) THEN Throw      \* .replace is not a function
       ELSE
         LET rawText == ReplaceChar(text.v, NBSP, " ")
             style == Get(segment, "style")
             isBold ==
               \/ Includes(ToLowerCase(ToStringJS(
                    Coalesce(Get(segment, "fontWeight"),
                    Coalesce(OptGet(style, "fontWeight"), Str(""))))), "bold")
               \/ Truthy(Get(segment, "bold"))
             isItalic ==
               \/ Includes(ToLowerCase(ToStringJS(
                    Coalesce(Get(segment, "fontStyle"),
                    Coalesce(OptGet(style, "fontStyle"), Str(""))))), "italic")
               \/ Truthy(Get(segment, "italic"))
               \/ Truthy(Get(segment, "oblique"))
             fontFamilyValue ==
               Trim(KeepChars(fontFamily.v,
                              UpperLetters \o LowerLetters \o Digits \o " ,'-"))
             textDecoration == normalizeTextDecoration(OrElse(style, segment))
             position == Get(lineData, "position")
         IN IF Trim(rawText) = "" THEN Null
            ELSE IF ~IsStr(fontFamily) THEN Throw   \* .replace is not a function
            ELSE
              Obj([text |-> Str(rawText),
                   style |-> Obj([
                     fontSize |-> toPixelString(
                       Coalesce(Get(segment, "fontSize"),
                       Coalesce(OptGet(style, "fontSize"), Num(fallbackFontSize)))),
                     fontWeight |-> IF isBold THEN Num(600)
                                    ELSE Get(defaultSegmentStyle, "fontWeight"),
                     fontStyle |-> IF isItalic THEN Str("italic")
                                   ELSE Get(defaultSegmentStyle, "fontStyle"),
                     textDecoration |-> OrElse(textDecoration,
                                               Get(defaultSegmentStyle, "textDecoration")),
                     fontFamily |-> Str("'" \o
                       (IF fontFamilyValue # "" THEN fontFamilyValue
                        ELSE Get(defaultSegmentStyle, "fontFamily").v)
                       \o "', " \o Get(defaultSegmentStyle, "fontFamily").v),
                     letterSpacing |-> Get(defaultSegmentStyle, "letterSpacing")]),
                   meta |-> Obj([
                     original |-> segment,
                     position |-> Obj([
                       x |-> Coalesce(OptGet(position, "x"),
                             Coalesce(Get(lineData, "x"), Num(0))),
                       y |-> Coalesce(OptGet(position, "y"),
                             Coalesce(Get(lineData, "y"), Num(lineIndex * 18)))])])])

\* `alignment` of normalizeLine
lineAlignment(lineData) ==
  LET style == Get(lineData, "style")
  IN OrElse(normalizeAlignment(Get(lineData, "text_alignment")),
     OrElse(normalizeAlignment(Get(lineData, "alignment")),
     OrElse(normalizeAlignment(Get(lineData, "textAlign")),
     OrElse(normalizeAlignment(Get(lineData, "text_align")),
     OrElse(normalizeAlignment(Get(lineData, "align")),
     OrElse(normalizeAlignment(Get(lineData, "justification")),
     OrElse(normalizeAlignment(Get(lineData, "justify")),
     OrElse(normalizeAlignment(OptGet(style, "textAlign")),
     OrElse(normalizeAlignment(OptGet(style, "text_alignment")),
            Null)))))))))

\* lineResult without `if (!segments.length) return null;`
lineResultKeepEmpty(lineData, lineIndex, segments) ==
  IF segments.t = "throw" THEN Throw
  ELSE Obj([y |-> Coalesce(OptGet(Get(lineData, "position"), "y"),
                  Coalesce(Get(lineData, "y"), Num(lineIndex * 18))),
            segments |-> segments,
            align |-> OrElse(lineAlignment(lineData), Str("left")),
            x |-> Coalesce(OptGet(Get(lineData, "position"), "x"),
                  Coalesce(Get(lineData, "x"), Num(0)))])

\* the end of normalizeLine: `if (!segments.length) return null;` and the Line
lineResult(lineData, lineIndex, segments) ==
  IF segments.t = "throw" THEN Throw
  ELSE IF Len(segments.v) = 0 THEN Null
  ELSE Obj([y |-> Coalesce(OptGet(Get(lineData, "position"), "y"),
                  Coalesce(Get(lineData, "y"), Num(lineIndex * 18))),
            segments |-> segments,
            align |-> OrElse(lineAlignment(lineData), Str("left")),
            x |-> Coalesce(OptGet(Get(lineData, "position"), "x"),
                  Coalesce(Get(lineData, "x"), Num(0)))])

\* normalizeLine(lineData, lineIndex): a Line, Null (no segment left) or Throw
normalizeLine(lineData, lineIndex) ==
  IF Nullish(lineData) THEN Throw      \* property read of null
  ELSE
    LET rawSegments ==
          Coalesce(Get(lineData, "segments"),
          Coalesce(Get(lineData, "text_runs"),
          Coalesce(Get(lineData, "words"),
          Coalesce(Get(lineData, "chunks"),
                   IF Truthy(Get(lineData, "text"))
                   THEN Arr(<<Obj([text |-> Get(lineData, "text")])>>)
                   ELSE Arr(<<>>)))))
    IN IF ~IsArr(rawSegments) THEN Throw     \* .map is not a function
       ELSE lineResult(lineData, lineIndex,
              FilterOrThrow(MapOrThrow([i \in 1..Len(rawSegments.v) |->
                normalizeSegment(rawSegments.v[i], lineData, lineIndex)])))

----------------------------------------------------------------------------
(* Plain text and markdown *)

\* simpleLine without the replacement of non-breaking spaces
simpleLineKeepNbsp(line, index) ==
  LET segments == parseMarkdownToSegments(line)
  IN IF Trim(line) = "" THEN Null
     ELSE Obj([y |-> Num(index * 20),
               segments |-> Arr(IF Len(segments) > 0 THEN segments
                                ELSE <<buildSimpleSegment(line, EmptyObj)>>),
               align |-> Str("left")])

\* the line callback of convertSimpleTextToPages: a Line, or Null
simpleLine(line, index) ==
  LET normalizedLine == ReplaceChar(line, NBSP, " ")
      segments == parseMarkdownToSegments(normalizedLine)
  IN IF Trim(normalizedLine) = "" THEN Null
     ELSE Obj([y |-> Num(index * 20),
               segments |-> Arr(IF Len(segments) > 0 THEN segments
                                ELSE <<buildSimpleSegment(normalizedLine, EmptyObj)>>),
               align |-> Str("left")])

\* the end of convertSimpleTextToPages
simplePages(lines) ==
  IF Len(lines) = 0 THEN Arr(<<>>)
  ELSE Arr(<<Obj([number |-> Num(1), lines |-> Arr(lines)])>>)

\* convertSimpleTextToPages(text): an array of zero or one page, or Throw
convertSimpleTextToPages(text) ==
  IF ~Truthy(text) THEN Arr(<<>>)
  ELSE IF ~IsStr(text) THEN Throw      \* .replace is not a function
  ELSE
    LET split == Split(ReplaceChar(text.v, "\r", ""), "\n")
    IN simplePages(FilterBoolean([i \in 1..Len(split) |-> simpleLine(split[i], i - 1)]))

\* array.map(String) then join(sep); a null or undefined element joins as ''
JoinValues(q, sep) ==
  Join([i \in 1..Len(q) |-> IF Nullish(q[i]) THEN "" ELSE ToStringJS(q[i])], sep)

NonEmpty(strings) == SelectSeq(strings, LAMBDA x : x # "")

\* pagesToPlainText(pages = [])
pagesToPlainText(pages) ==
  LET textOfLine(line) ==
        LET segments == OrElse(OptGet(line, "segments"), Arr(<<>>))
        IN TrimEnd(JoinValues([i \in 1..Len(segments.v) |->
                                 OrElse(OptGet(segments.v[i], "text"), Str(""))], ""))
      textOfPage(page) ==
        LET lines == OrElse(Get(page, "lines"), Arr(<<>>))
            tables == OrElse(Get(page, "tables"), Arr(<<>>))
            lineText == Join(NonEmpty([i \in 1..Len(lines.v) |-> textOfLine(lines.v[i])]),
                             "\n")
            tableText ==
              JoinValues(FilterBoolean([i \in 1..Len(tables.v) |->
                                          Get(tables.v[i], "text")]), "\n\n")
        IN Join(NonEmpty(<<lineText, tableText>>), "\n\n")
  IN Join(NonEmpty([i \in 1..Len(pages) |-> textOfPage(pages[i])]), "\n\n")

\* marked.parse(markdownText).  The renderer is a library outside the
\* repository; kept of it: a blank document renders to the empty string, any
\* other document to a non-empty string that determines the document.
markedParse(markdownText) ==
  IF Trim(markdownText) = "" THEN "" ELSE "<md>" \o markdownText \o "</md>"

\* markdownToHtml(markdownText)
markdownToHtml(markdownText) ==
  IF ~Truthy(markdownText) \/ ~IsStr(markdownText) THEN ""
  ELSE markedParse(markdownText.v)

\* markdownToPages(markdownText)
markdownToPages(markdownText) ==
  IF ~Truthy(markdownText) \/ ~IsStr(markdownText) THEN Arr(<<>>)
  ELSE convertSimpleTextToPages(
         Str(Join(Split(ReplaceChar(markdownText.v, "\r", ""), "\n"), "\n")))

----------------------------------------------------------------------------
(* Page normalizer and document assembler *)

\* the image callback of normalizePage: an Image, or Throw
normalizeImage(image) ==
  IF Nullish(image) THEN Throw         \* property read of null
  ELSE
    LET url == Get(image, "image_url")
        fromUrl ==
          IF Nullish(url) THEN Null
          ELSE IF ~IsStr(url) THEN Throw     \* .startsWith is not a function
          ELSE IF StartsWith(url.v, "data:")
               THEN (IF Len(Split(url.v, ",")) >= 2
                     THEN Str(Split(url.v, ",")[2]) ELSE Undef)
               ELSE Null
        base64 == Coalesce(Get(image, "image_base64"),
                  Coalesce(Get(image, "image"), fromUrl))
    IN IF base64.t = "throw" THEN Throw
       ELSE Obj([id |-> Coalesce(Get(image, "id"),
                        Coalesce(Get(image, "image_id"), Null)),
                 base64 |-> base64,
                 position |-> Obj([
                   topLeft |-> Obj([
                     x |-> Coalesce(Get(image, "top_left_x"),
                           Coalesce(Get(image, "x"), Num(0))),
                     y |-> Coalesce(Get(image, "top_left_y"),
                           Coalesce(Get(image, "y"), Num(0)))]),
                   bottomRight |-> Obj([
                     x |-> Coalesce(Get(image, "bottom_right_x"), Num(0)),
                     y |-> Coalesce(Get(image, "bottom_right_y"), Num(0))])])])

\* the tables of a page-like entry or of the payload
normalizeTables(tablesRaw) ==
  IF IsArr(tablesRaw)
  THEN FilterBoolean([i \in 1..Len(tablesRaw.v) |-> normalizeTable(tablesRaw.v[i], i - 1)])
  ELSE <<>>

\* `lines` of normalizePage as first assigned: an array, or Throw
structuredLines(pageData) ==
  LET rawLines == Coalesce(Get(pageData, "lines"),
                  Coalesce(Get(pageData, "text_lines"),
                  Coalesce(Get(pageData, "blocks"), Arr(<<>>))))
  IN IF ~IsArr(rawLines) THEN Throw     \* .map is not a function
     ELSE FilterOrThrow(MapOrThrow([i \in 1..Len(rawLines.v) |->
                                      normalizeLine(rawLines.v[i], i - 1)]))

\* `if (mdPages?.length) lines = mdPages[0].lines || [];`
firstPageLines(mdPages, lines) ==
  IF Len(mdPages.v) > 0 THEN OrElse(Get(mdPages.v[1], "lines"), Arr(<<>>)) ELSE lines

\* the markdown fallback of normalizePage: [lines, htmlParts], htmlParts being
\* what the step pushes to `htmlParts`
markdownFallback(pageData, lines) ==
  LET markdown == Get(pageData, "markdown")
  IN IF lines.t = "throw" THEN [lines |-> Throw, htmlParts |-> <<>>]
     ELSE IF Len(lines.v) = 0 /\ IsStr(markdown) /\ Trim(markdown.v) # ""
     THEN [lines |-> firstPageLines(markdownToPages(markdown), lines),
           htmlParts |-> <<markdownToHtml(markdown)>>]
     ELSE [lines |-> lines, htmlParts |-> <<>>]

\* `const fauxPage = ...[0]; if (fauxPage?.lines?.length) lines = fauxPage.lines;`
fauxPageLines(fauxPages, lines) ==
  IF fauxPages.t = "throw" THEN Throw
  ELSE LET fauxLines == OptGet(Index(fauxPages, 0), "lines")
       IN IF IsArr(fauxLines) /\ Len(fauxLines.v) > 0 THEN fauxLines ELSE lines

\* the text fallback of normalizePage
textFallback(pageData, found) ==
  IF found.lines.t = "throw" THEN found
  ELSE IF Len(found.lines.v) = 0 /\ Truthy(Get(pageData, "text"))
  THEN [lines |-> fauxPageLines(convertSimpleTextToPages(Get(pageData, "text")),
                                found.lines),
        htmlParts |-> found.htmlParts]
  ELSE found

\* `images` of normalizePage: an array, or Throw
pageImages(pageData) ==
  LET imagesRaw == Get(pageData, "images")
  IN IF Nullish(imagesRaw) THEN Arr(<<>>)
     ELSE IF ~IsArr(imagesRaw) THEN Throw        \* .map is not a function
     ELSE MapOrThrow([i \in 1..Len(imagesRaw.v) |-> normalizeImage(imagesRaw.v[i])])

\* the Page of pageResult
pageObject(pageData, pageIndex, found, images) ==
  Obj([number |-> Coalesce(Get(pageData, "number"),
                  Coalesce(Get(pageData, "page"), Num(pageIndex + 1))),
       lines |-> found.lines,
       images |-> images,
       tables |-> Arr(normalizeTables(
                    OrElse(Get(pageData, "tables"),
                    OrElse(Get(pageData, "table"), Arr(<<>>)))))])

\* pageResult without `if (!lines.length) return null;`
pageResultKeepEmpty(pageData, pageIndex, found, images) ==
  IF found.lines.t = "throw" \/ images.t = "throw"
  THEN [page |-> Throw, htmlParts |-> found.htmlParts]
  ELSE [page |-> pageObject(pageData, pageIndex, found, images),
        htmlParts |-> found.htmlParts]

\* pageResult returning null only for an entry without lines, tables and images
pageResultKeepOrphans(pageData, pageIndex, found, images) ==
  IF found.lines.t = "throw" \/ images.t = "throw"
  THEN [page |-> Throw, htmlParts |-> found.htmlParts]
  ELSE IF /\ Len(found.lines.v) = 0
          /\ Len(images.v) = 0
          /\ Len(Get(pageObject(pageData, pageIndex, found, images), "tables").v) = 0
  THEN [page |-> Null, htmlParts |-> found.htmlParts]
  ELSE [page |-> pageObject(pageData, pageIndex, found, images),
        htmlParts |-> found.htmlParts]

\* the end of normalizePage: `if (!lines.length) return null;` and the Page
pageResult(pageData, pageIndex, found, images) ==
  IF found.lines.t = "throw" \/ images.t = "throw"
  THEN [page |-> Throw, htmlParts |-> found.htmlParts]
  ELSE IF Len(found.lines.v) = 0
  THEN [page |-> Null, htmlParts |-> found.htmlParts]
  ELSE [page |-> pageObject(pageData, pageIndex, found, images),
        htmlParts |-> found.htmlParts]

\* normalizePage(pageData, pageIndex): [page, htmlParts], page being a Page,
\* Null (no line) or Throw, htmlParts what the call pushes to `htmlParts`
normalizePage(pageData, pageIndex) ==
  IF Nullish(pageData) THEN [page |-> Throw, htmlParts |-> <<>>]   \* property read of null
  ELSE pageResult(pageData, pageIndex,
                  textFallback(pageData,
                    markdownFallback(pageData, structuredLines(pageData))),
                  pageImages(pageData))

RECURSIVE Flatten(_)
Flatten(qs) == IF qs = <<>> THEN <<>> ELSE Head(qs) \o Flatten(Tail(qs))

\* the entries the forEach walks: payload.pages, else payload.results
pageEntries(payload) ==
  IF IsArr(Get(payload, "pages")) /\ Len(Get(payload, "pages").v) > 0
  THEN Get(payload, "pages").v
  ELSE IF IsArr(Get(payload, "results")) /\ Len(Get(payload, "results").v) > 0
  THEN Get(payload, "results").v
  ELSE <<>>

\* what normalizePage gives for each entry walked
pageOutcomes(entries) ==
  [i \in 1..Len(entries) |-> normalizePage(entries[i], i - 1)]

\* the top-level tables put before the first page's own tables
withTopLevelTablesFirst(assembled, topLevelTables) ==
  IF Len(topLevelTables) = 0 THEN assembled
  ELSE IF Len(assembled) > 0
  THEN <<Spread(assembled[1],
           Obj([tables |->
             Arr(topLevelTables
                   \o OrElse(Get(assembled[1], "tables"), Arr(<<>>)).v)]))>>
         \o Tail(assembled)
  ELSE <<Obj([number |-> Num(1), lines |-> Arr(<<>>), images |-> Arr(<<>>),
              tables |-> Arr(topLevelTables)])>>

\* `pages` once the top-level tables are attached
withTopLevelTables(assembled, topLevelTables) ==
  IF Len(topLevelTables) = 0 THEN assembled
  ELSE IF Len(assembled) > 0
  THEN <<Spread(assembled[1],
           Obj([tables |->
             Arr(OrElse(Get(assembled[1], "tables"), Arr(<<>>)).v
                   \o topLevelTables)]))>> \o Tail(assembled)
  ELSE <<Obj([number |-> Num(1), lines |-> Arr(<<>>), images |-> Arr(<<>>),
              tables |-> Arr(topLevelTables)])>>

\* `markdownText` of normalizeMistralResponse
documentMarkdown(payload) ==
  Coalesce(Get(payload, "markdown"),
  Coalesce(Get(payload, "text_markdown"),
  Coalesce(Get(payload, "document_markdown"),
  Coalesce(Get(payload, "output_markdown"),
           Get(payload, "result_markdown")))))

\* htmlFromMarkdown with the document rendering taking precedence
htmlFromMarkdownDocumentFirst(markdownText, htmlParts) ==
  IF Truthy(markdownText) THEN Str(markdownToHtml(markdownText))
  ELSE IF Len(htmlParts) > 0 THEN Str(Join(htmlParts, "\n"))
  ELSE Null

\* `html` after the document rendering and the joined per-page renderings
htmlFromMarkdown(markdownText, htmlParts) ==
  IF Len(htmlParts) > 0 THEN Str(Join(htmlParts, "\n"))
  ELSE IF Truthy(markdownText) THEN Str(markdownToHtml(markdownText))
  ELSE Null

\* `if (!html && pagePlainText) html = markdownToHtml(pagePlainText);`
htmlOrPlainText(html, pagePlainText) ==
  IF ~Truthy(html) /\ pagePlainText # ""
  THEN Str(markdownToHtml(Str(pagePlainText))) ELSE html

\* `rawText` of normalizeMistralResponse
documentText(payload) ==
  Coalesce(Get(payload, "text"),
  Coalesce(Get(payload, "document_text"),
  Coalesce(Get(payload, "output"),
  Coalesce(Get(payload, "result"),
  Coalesce(Get(payload, "ocr_text"),
  Coalesce(Get(payload, "data"),
  Coalesce(Get(payload, "markdown"), Str(""))))))))

\* the last-resort text fallback and the return of normalizeMistralResponse
documentResult(payload, pages, html) ==
  IF Len(pages) = 0 /\ IsStr(documentText(payload)) /\ Trim(documentText(payload).v) # ""
  THEN Obj([pages |-> convertSimpleTextToPages(documentText(payload)),
            html |-> OrElse(html, Str(markdownToHtml(documentText(payload)))),
            raw |-> payload])
  ELSE Obj([pages |-> Arr(pages), html |-> html, raw |-> payload])

\* normalizeMistralResponse after the page walk, `pages` and `htmlParts` as
\* the walk and the top-level tables leave them
documentOf(payload, pages, htmlParts) ==
  documentResult(payload, pages,
    htmlOrPlainText(htmlFromMarkdown(documentMarkdown(payload), htmlParts),
                    pagesToPlainText(pages)))

\* normalizeMistralResponse from the outcomes of the page walk
documentFrom(payload, outcomes) ==
  IF \E i \in 1..Len(outcomes) : outcomes[i].page.t = "throw" THEN Throw
  ELSE documentOf(payload,
         withTopLevelTables(FilterBoolean([i \in 1..Len(outcomes) |-> outcomes[i].page]),
                            normalizeTables(Get(payload, "tables"))),
         Flatten([i \in 1..Len(outcomes) |-> outcomes[i].htmlParts]))

\* normalizeMistralResponse(payload): { pages, html, raw }, or Throw
normalizeMistralResponse(payload) ==
  IF ~Truthy(payload)
  THEN Obj([pages |-> Arr(<<>>), html |-> Null, raw |-> EmptyObj])
  ELSE documentFrom(payload, pageOutcomes(pageEntries(payload)))

----------------------------------------------------------------------------
(* Inputs of the inline span parser *)

Letters == {"a", "b"}

RECURSIVE StringsUpTo(_, _)
\* the strings of 0..n pieces, each piece taken from the set `pieces`
StringsUpTo(pieces, n) ==
  IF n = 0 THEN {""}
  ELSE LET shorter == StringsUpTo(pieces, n - 1)
       IN shorter \cup {s \o c : s \in shorter, c \in pieces}

\* marker-free, non-blank words
Words == StringsUpTo(Letters, MaxWord) \ {""}
\* marker-free text with surrounding spaces
SpacedWords == {" " \o w \o " " : w \in Words}

MarkerTokens == {"**", "__", "*", "_", "<u>", "</u>"}
Tokens == MarkerTokens \cup {"a", " "}

BoldItalicLine(A, B, C) == "**" \o A \o "**" \o B \o "*" \o C \o "*"
UnderlineLine(A, B) == "<u>" \o A \o "</u>" \o B

ParseInputs ==
  {BoldItalicLine(A, B, C) : A \in Words, B \in SpacedWords, C \in Words}
    \cup {UnderlineLine(A, B) : A \in Words, B \in Words}
    \cup StringsUpTo(Tokens, MaxTokens)

----------------------------------------------------------------------------
(* Inputs of the line normalizer *)

RECURSIVE SeqsUpTo(_, _)
\* the sequences of 0..n elements of S
SeqsUpTo(S, n) ==
  IF n = 0 THEN {<<>>}
  ELSE LET shorter == SeqsUpTo(S, n - 1)
       IN shorter \cup {Append(q, e) : q \in shorter, e \in S}

segPlain == Obj([text |-> Str("a")])
segBold == Obj([text |-> Str("b"), bold |-> Bool(TRUE)])
segFamily == Obj([text |-> Str("c"), fontFamily |-> Str("Arial")])
segStyled ==
  Obj([content |-> Str("a" \o NBSP \o "b"),
       fontStyle |-> Str("Italic"),
       style |-> Obj([textDecoration |-> Str("underline"), fontSize |-> Str("12")])])
segBlank == Obj([text |-> Str(" " \o NBSP)])
segNumberText == Obj([text |-> Num(5)])
segNumberFamily == Obj([text |-> Str("d"), fontFamily |-> Num(7)])

RawSegments ==
  {segPlain, segBold, segFamily, segStyled, segBlank, Null, segNumberText, segNumberFamily}

\* where a raw line says it is, and how it is aligned
RawLineGeometry ==
  {EmptyObj.v,
   [x |-> Num(50), y |-> Num(100)],
   [position |-> Obj([x |-> Num(20), y |-> Num(40)]), alignment |-> Str("Center")]}

RawLines ==
  {Obj([segments |-> Arr(q)] @@ g) : q \in SeqsUpTo(RawSegments, MaxSegments),
                                      g \in RawLineGeometry}
    \cup {Obj([text |-> Str("hello")]), Obj([segments |-> Str("abc")]), Null}

----------------------------------------------------------------------------
(* Payloads of the OCR provider *)

\* an object holding the properties of r that are defined
Props(r) == Obj([k \in {k \in DOMAIN r : r[k] # Undef} |-> r[k]])

tblPage ==
  Obj([id |-> Str("T1"),
       rows |-> Arr(<<Arr(<<Str("h"), Str("i")>>)>>),
       geometry |-> Obj([bounding_box |-> Arr(<<Num(0), Num(90), Num(200), Num(150)>>)])])
tblOrphan ==
  Obj([id |-> Str("T2"), rows |-> Arr(<<Arr(<<Str("k")>>)>>), y |-> Num(30)])
tblTop ==
  Obj([table_id |-> Str("T9"),
       rows |-> Arr(<<Obj([cells |-> Arr(<<
                  Obj([text |-> Str("x<y"), header |-> Bool(TRUE), colspan |-> Str("2")]),
                  Null>>)]),
                Str("no cells")>>)])
tblNoRows == Obj([id |-> Str("T0"), rows |-> Arr(<<>>)])

imgOrphan == Obj([id |-> Str("I2"), image_base64 |-> Str("AAAA")])
imgDataUrl == Obj([image_url |-> Str("data:image/png;base64,BBBB"), top_left_x |-> Num(3)])
imgNumberUrl == Obj([image_url |-> Num(5)])

lineKept == Obj([segments |-> Arr(<<segPlain, segBold>>), x |-> Num(50), y |-> Num(100)])
lineDropped == Obj([segments |-> Arr(<<segBlank, Null>>)])

\* page-like entries the normalizers accept
pgLines == Obj([lines |-> Arr(<<lineDropped, lineKept>>), tables |-> Arr(<<tblPage>>)])
pgBlocks == Obj([blocks |-> Arr(<<Obj([text |-> Str("hello")])>>), markdown |-> Str("x"),
                 number |-> Num(7)])
pgMarkdown ==
  Obj([lines |-> Arr(<<lineDropped>>), markdown |-> Str("**a**\nb"),
       images |-> Arr(<<imgDataUrl>>)])
pgMarkers == Obj([markdown |-> Str("**")])
pgText == Obj([text_lines |-> Arr(<<>>), text |-> Str("a\n\nb "), page |-> Num(3)])
pgOrphans == Obj([tables |-> Arr(<<tblOrphan>>), images |-> Arr(<<imgOrphan>>)])
pgBlank == Obj([markdown |-> Str(" \n"), text |-> Str(" ")])
\* page-like entries of a shape the normalizers do not expect
pgStringLines == Obj([lines |-> Str("abc")])
pgStringSegments == Obj([lines |-> Arr(<<Obj([segments |-> Str("abc")])>>)])
pgNumberSegmentText == Obj([lines |-> Arr(<<Obj([segments |-> Arr(<<segNumberText>>)])>>)])
pgNumberFamily == Obj([lines |-> Arr(<<Obj([segments |-> Arr(<<segNumberFamily>>)])>>)])
pgNumberText == Obj([text |-> Num(5)])
pgStringImages == Obj([text |-> Str("a"), images |-> Str("abc")])
pgNumberImageUrl == Obj([text |-> Str("a"), images |-> Arr(<<imgNumberUrl>>)])

WellFormedPages == {pgLines, pgBlocks, pgMarkdown, pgMarkers, pgText, pgOrphans, pgBlank}
MalformedPages ==
  {Null, pgStringLines, pgStringSegments, pgNumberSegmentText, pgNumberFamily,
   pgNumberText, pgStringImages, pgNumberImageUrl}

\* the lines of a top-level text field
TextLines == {"a", " b", "", "*c*", "d" \o NBSP \o "e", "f\r", "**a** **b**"}
Texts == {Join(q, "\n") : q \in SeqsUpTo(TextLines, MaxTextLines) \ {<<>>}}

\* payloads whose page-like entries are well formed
PayloadsWithPages ==
  {Props([pages |-> Arr(q), tables |-> tb, markdown |-> md]) :
     q \in SeqsUpTo(WellFormedPages, MaxPages) \ {<<>>},
     tb \in {Undef, Arr(<<tblNoRows, tblTop>>)},
     md \in {Undef, Str("doc")}}
    \cup {Props([pages |-> Arr(<<pg>>), text |-> Str("Hello\nWorld")]) :
            pg \in WellFormedPages}

\* payloads that hold a page-like entry of an unexpected shape
PayloadsMalformed ==
  {Props([pages |-> Arr(Append(q, bad))]) :
     q \in SeqsUpTo(WellFormedPages, MaxPages - 1), bad \in MalformedPages}

\* payloads with the page-like entries under `results`
PayloadsWithResults ==
  {Props([pages |-> pg, results |-> Arr(<<r>>), output_markdown |-> md]) :
     pg \in {Undef, Arr(<<>>)}, r \in WellFormedPages, md \in {Undef, Str("doc")}}

\* payloads without page-like entries
PayloadsWithoutPages ==
  {Props([pages |-> pg, tables |-> tb, markdown |-> md, text |-> tx]) :
     pg \in {Undef, Str("none")},
     tb \in {Undef, Arr(<<tblTop>>), Arr(<<tblNoRows>>), Str("none")},
     md \in {Undef, Str("doc"), Str(" "), Num(3)},
     tx \in {Undef, Num(5), Str("a \nb")}}

\* payloads of a top-level text, with or without a document markdown
PayloadsOfText ==
  {Props([markdown |-> md, text |-> Str(t)]) :
     md \in {Undef, Str("doc"), Str(" "), Num(3)}, t \in Texts}

Payloads ==
  PayloadsWithPages \cup PayloadsMalformed \cup PayloadsWithResults
    \cup PayloadsWithoutPages \cup PayloadsOfText \cup {Null}

----------------------------------------------------------------------------
(* Idle values of the variables a specification does not use *)

ParseIdle ==
  /\ pText = "" /\ pRemaining = "" /\ pStyle = initialStyle
  /\ pSegments = <<>> /\ pResult = <<>> /\ pPc = "idle"

LineIdle ==
  /\ lineArg = Undef /\ lineIdx = 0 /\ lineOut = Undef
  /\ lineAgain = Undef /\ linePc = "idle"

ExtractIdle ==
  /\ request = [file |-> FALSE, apiKey |-> FALSE]
  /\ mistralPayload = Undef /\ normalized = Undef /\ response = Undef /\ reqPc = "idle"
  /\ ocrCalls = 0

TableIdle ==
  /\ tblArg = Undef /\ tblIdx = 0 /\ tblOut = Undef /\ tblPc = "idle"

\* `descriptions = {}`
NoDescriptions == [k \in {} |-> ""]

ExportIdle ==
  /\ exRequest = Undef /\ exPc = "idle" /\ exCursor = 0
  /\ descriptions = NoDescriptions /\ inFlight = {} /\ visionCalls = <<>>
  /\ exResponse = Undef

UiIdle ==
  /\ lastResult = Null /\ statusEl = [message |-> "", tone |-> "neutral"]
  /\ previewEl = "initial" /\ textOutput = "" /\ storedKey = FALSE
  /\ uploads = 0 /\ describes = 0
  /\ extractFetches = {} /\ describeFetches = {} /\ exportFetches = {}
  /\ exportsSent = <<>> /\ extractions = <<>>

----------------------------------------------------------------------------
(* parseMarkdownToSegments, one loop iteration per step *)

InitParse ==
  /\ pText \in ParseInputs
  /\ pRemaining = "" /\ pStyle = initialStyle
  /\ pSegments = <<>> /\ pResult = <<>> /\ pPc = "call"
  /\ LineIdle /\ ExtractIdle /\ TableIdle /\ ExportIdle /\ UiIdle

\* `if (!text) return [];` and the initialisation of the locals
ParseEnter ==
  /\ pPc = "call"
  /\ IF pText = ""
     THEN /\ pPc' = "returned"
          /\ UNCHANGED <<pRemaining, pStyle, pSegments, pResult>>
     ELSE /\ pRemaining' = pText
          /\ pStyle' = initialStyle
          /\ pSegments' = <<>>
          /\ pPc' = "loop"
          /\ UNCHANGED pResult
  /\ UNCHANGED <<pText, lineVars, extractVars, tableVars, exportVars, uiVars>>

\* one iteration of the while loop; `break` leaves the loop
ParseIterate ==
  /\ pPc = "loop"
  /\ Len(pRemaining) > 0
  /\ LET st == parseIteration([remaining |-> pRemaining, style |-> pStyle,
                               segments |-> pSegments, done |-> FALSE])
     IN /\ pRemaining' = st.remaining
        /\ pStyle' = st.style
        /\ pSegments' = st.segments
        /\ pPc' = IF st.done THEN "filter" ELSE "loop"
  /\ UNCHANGED <<pText, pResult, lineVars, extractVars, tableVars, exportVars, uiVars>>

\* `return segments.filter(s => s.text);`
ParseReturn ==
  /\ \/ pPc = "filter"
     \/ pPc = "loop" /\ Len(pRemaining) = 0
  /\ pResult' = dropEmptyText(pSegments)
  /\ pPc' = "returned"
  /\ UNCHANGED <<pText, pRemaining, pStyle, pSegments, lineVars, extractVars, tableVars, exportVars, uiVars>>

NextParse == ParseEnter \/ ParseIterate \/ ParseReturn

SpecParse == InitParse /\ [][NextParse]_vars

\* the call runs to completion: the loop is synchronous code
SpecParseFair == SpecParse /\ WF_vars(NextParse)

----------------------------------------------------------------------------
(* normalizeLine applied to a raw line, then to its own result *)

InitLine ==
  /\ lineArg \in RawLines
  /\ lineIdx \in 0..MaxLineIndex
  /\ lineOut = Undef /\ lineAgain = Undef /\ linePc = "call"
  /\ ParseIdle /\ ExtractIdle /\ TableIdle /\ ExportIdle /\ UiIdle

LineNormalize ==
  /\ linePc = "call"
  /\ lineOut' = normalizeLine(lineArg, lineIdx)
  /\ linePc' = "once"
  /\ UNCHANGED <<lineArg, lineIdx, lineAgain, parseVars, extractVars, tableVars, exportVars, uiVars>>

LineNormalizeAgain ==
  /\ linePc = "once"
  /\ IsObj(lineOut)
  /\ lineAgain' = normalizeLine(lineOut, lineIdx)
  /\ linePc' = "twice"
  /\ UNCHANGED <<lineArg, lineIdx, lineOut, parseVars, extractVars, tableVars, exportVars, uiVars>>

NextLine == LineNormalize \/ LineNormalizeAgain

SpecLine == InitLine /\ [][NextLine]_vars

----------------------------------------------------------------------------
(* POST /api/extract *)

NoDataMessage == "Mistral OCR lieferte keine auswertbaren Daten."

InitExtract ==
  /\ request \in [file : BOOLEAN, apiKey : BOOLEAN]
  /\ mistralPayload = Undef /\ normalized = Undef /\ response = Undef
  /\ reqPc = "received" /\ ocrCalls = 0
  /\ ParseIdle /\ LineIdle /\ TableIdle /\ ExportIdle /\ UiIdle

\* the handler up to `await readFile(...)`; mistralEnabled is always true,
\* MISTRAL_OCR_API_URL having a non-empty default
ExtractBegin ==
  /\ reqPc = "received"
  /\ IF ~request.file
     THEN /\ response' = [status |-> 400, error |-> "Bitte eine PDF-Datei hochladen."]
          /\ reqPc' = "done"
     ELSE IF ~request.apiKey
     THEN /\ response' = [status |-> 400, error |-> "Bitte eigenen Mistral API-Key angeben."]
          /\ reqPc' = "done"
     ELSE /\ reqPc' = "reading"
          /\ UNCHANGED response
  /\ UNCHANGED <<request, mistralPayload, normalized, ocrCalls,
                 parseVars, lineVars, tableVars, exportVars, uiVars>>

\* readFile resolves: callMistralOcr sends its one request to the provider
ReadFileResolve ==
  /\ reqPc = "reading"
  /\ ocrCalls' = ocrCalls + 1
  /\ reqPc' = "ocr"
  /\ UNCHANGED <<request, mistralPayload, normalized, response,
                 parseVars, lineVars, tableVars, exportVars, uiVars>>

\* readFile rejects: the catch block answers, no request was sent
ReadFileReject ==
  /\ reqPc = "reading"
  /\ response' = [status |-> 502, error |-> "ENOENT: no such file or directory"]
  /\ reqPc' = "done"
  /\ UNCHANGED <<request, mistralPayload, normalized, ocrCalls,
                 parseVars, lineVars, tableVars, exportVars, uiVars>>

\* extractResponse answering no-data whenever there is no page
extractResponsePagesOnly(result) ==
  LET pages == OrElse(OptGet(result, "pages"), Arr(<<>>))
      html == OrElse(OptGet(result, "html"), Null)
  IN IF result.t = "throw"
     THEN [status |-> 502, error |-> "TypeError"]
     ELSE IF Len(pages.v) = 0
     THEN [status |-> 502, error |-> NoDataMessage]
     ELSE [status |-> 200, pages |-> pages, pageCount |-> Len(pages.v),
           source |-> "mistral", html |-> html]

\* the handler after `normalizeMistralResponse(mistralPayload)`: the catch
\* block answers a raised error, the no-data branch an empty result
extractResponse(result) ==
  LET pages == OrElse(OptGet(result, "pages"), Arr(<<>>))
      html == OrElse(OptGet(result, "html"), Null)
  IN IF result.t = "throw"
     THEN [status |-> 502, error |-> "TypeError"]
     ELSE IF Len(pages.v) = 0 /\ ~Truthy(html)
     THEN [status |-> 502, error |-> NoDataMessage]
     ELSE [status |-> 200, pages |-> pages, pageCount |-> Len(pages.v),
           source |-> "mistral", html |-> html]

\* callMistralOcr resolves: the payload is normalized and answered
OcrResolve ==
  /\ reqPc = "ocr"
  /\ \E p \in Payloads :
       /\ mistralPayload' = p
       /\ normalized' = normalizeMistralResponse(p)
  /\ response' = extractResponse(normalized')
  /\ reqPc' = "done"
  /\ UNCHANGED <<request, ocrCalls, parseVars, lineVars, tableVars, exportVars, uiVars>>

\* OcrReject sending the request again instead of answering
OcrRejectRetry ==
  /\ reqPc = "ocr"
  /\ ocrCalls < 3
  /\ ocrCalls' = ocrCalls + 1
  /\ UNCHANGED <<request, mistralPayload, normalized, response, reqPc,
                 parseVars, lineVars, tableVars, exportVars, uiVars>>

\* callMistralOcr rejects (fetch fails, the status is not ok, or the body is
\* not JSON): the catch block answers
OcrReject ==
  /\ reqPc = "ocr"
  /\ response' = [status |-> 502, error |-> "Mistral OCR 500: Keine Details"]
  /\ reqPc' = "done"
  /\ UNCHANGED <<request, mistralPayload, normalized, ocrCalls,
                 parseVars, lineVars, tableVars, exportVars, uiVars>>

NextExtract ==
  ExtractBegin \/ ReadFileResolve \/ ReadFileReject \/ OcrResolve \/ OcrReject

SpecExtract == InitExtract /\ [][NextExtract]_vars

----------------------------------------------------------------------------
(* Views of a segment *)

segText(s) == Get(s, "text").v
segStyle(s, k) == Get(Get(s, "style"), k)

----------------------------------------------------------------------------
(* Claims about the inline span parser *)

\* C1: a line of the form **A** B *C* (A, B, C marker-free, B with
\* surrounding spaces) parses to exactly three segments: A with fontWeight
\* 600, B with fontWeight 400 and fontStyle normal, C with fontStyle italic.
C1_BoldThenItalic ==
  pPc = "returned" =>
    \A A \in Words, B \in SpacedWords, C \in Words :
      pText = BoldItalicLine(A, B, C) =>
        /\ Len(pResult) = 3
        /\ segText(pResult[1]) = A /\ segStyle(pResult[1], "fontWeight") = Num(600)
        /\ segText(pResult[2]) = B /\ segStyle(pResult[2], "fontWeight") = Num(400)
        /\ segStyle(pResult[2], "fontStyle") = Str("normal")
        /\ segText(pResult[3]) = C /\ segStyle(pResult[3], "fontStyle") = Str("italic")

\* C2: a line of the form <u>A</u>B (A, B marker-free and non-blank) parses
\* to exactly two segments: A underlined, then B with textDecoration none,
\* the text of B being exactly the text after </u>.
C2_UnderlineThenPlain ==
  pPc = "returned" =>
    \A A \in Words, B \in Words :
      pText = UnderlineLine(A, B) =>
        /\ Len(pResult) = 2
        /\ segText(pResult[1]) = A
        /\ segStyle(pResult[1], "textDecoration") = Str("underline")
        /\ segText(pResult[2]) = B
        /\ segStyle(pResult[2], "textDecoration") = Str("none")

----------------------------------------------------------------------------
(* Claims about the line normalizer *)

StyleFields ==
  {"fontSize", "fontWeight", "fontStyle", "textDecoration", "fontFamily", "letterSpacing"}

SameSegment(s1, s2) ==
  /\ Get(s1, "text") = Get(s2, "text")
  /\ \A k \in StyleFields : segStyle(s1, k) = segStyle(s2, k)

SameLine(l1, l2) ==
  /\ IsObj(l1) /\ IsObj(l2)
  /\ Get(l1, "y") = Get(l2, "y")
  /\ Get(l1, "x") = Get(l2, "x")
  /\ Get(l1, "align") = Get(l2, "align")
  /\ Len(Get(l1, "segments").v) = Len(Get(l2, "segments").v)
  /\ \A i \in 1..Len(Get(l1, "segments").v) :
       SameSegment(Get(l1, "segments").v[i], Get(l2, "segments").v[i])

\* C4: line normalization is idempotent: normalizing a Line N that
\* normalizeLine returned gives a Line with the same y, x, align and,
\* segment by segment, the same text and style as N.
C4_NormalizeLineIdempotent ==
  linePc = "twice" => SameLine(lineOut, lineAgain)

----------------------------------------------------------------------------
(* Views of a handled request *)

\* normalizeMistralResponse was called on the provider's payload
Normalized == reqPc = "done" /\ mistralPayload # Undef
\* ... and returned a value
Returned == Normalized /\ IsObj(normalized)

elementsOf(x) == IF IsArr(x) THEN x.v ELSE <<>>
resultPages == elementsOf(Get(normalized, "pages"))
resultHtml == Get(normalized, "html")
linesOf(page) == elementsOf(Get(page, "lines"))
tablesOf(page) == elementsOf(Get(page, "tables"))
imagesOf(page) == elementsOf(Get(page, "images"))
idsOf(items) == {Get(items[i], "id") : i \in 1..Len(items)}

\* the page-like entries the call walked
walkedEntries == IF Truthy(mistralPayload) THEN pageEntries(mistralPayload) ELSE <<>>
\* the entry has no line after the structured-lines, markdown and text steps
YieldsNoLine(entry) ==
  textFallback(entry, markdownFallback(entry, structuredLines(entry))).lines = Arr(<<>>)
keptEntries == SelectSeq(walkedEntries, LAMBDA e : ~YieldsNoLine(e))
droppedEntries == SelectSeq(walkedEntries, LAMBDA e : YieldsNoLine(e))
\* the tables and images an entry carries, as normalizePage would emit them
entryTables(entry) ==
  normalizeTables(OrElse(Get(entry, "tables"), OrElse(Get(entry, "table"), Arr(<<>>))))
entryImages(entry) == elementsOf(pageImages(entry))

----------------------------------------------------------------------------
(* Claims about the document assembler and POST /api/extract *)

\* C3: normalizeMistralResponse never raises, whatever the shape of the
\* payload: it always returns a { pages, html } result.
C3_NeverRaises ==
  Normalized => IsObj(normalized) /\ IsArr(Get(normalized, "pages"))

\* C5: every Line of every page returned by normalizeMistralResponse has at
\* least one segment.
C5_LinesHaveSegments ==
  Returned =>
    \A i \in 1..Len(resultPages) :
      \A j \in 1..Len(linesOf(resultPages[i])) :
        Len(elementsOf(Get(linesOf(resultPages[i])[j], "segments"))) >= 1

\* a structured line without a surviving segment and a markdown line whose
\* inline parse is empty were both normalized
C5_Witness ==
  /\ Returned
  /\ Get(mistralPayload, "pages") = Arr(<<pgLines, pgMarkers>>)
  /\ Len(resultPages) = 2
  /\ Len(linesOf(resultPages[1])) = 1
  /\ Len(linesOf(resultPages[2])) = 1

\* C6 as stated: every Page returned by normalizeMistralResponse has at
\* least one line.
C6_PagesNeverEmpty ==
  Returned => \A i \in 1..Len(resultPages) : Len(linesOf(resultPages[i])) >= 1

\* the page synthesized to hold the top-level tables
TableOnlyPage(page) ==
  /\ Get(page, "number") = Num(1)
  /\ linesOf(page) = <<>>
  /\ imagesOf(page) = <<>>
  /\ Len(tablesOf(page)) >= 1

\* C6 amended: every Page returned by normalizeMistralResponse has at least
\* one line, except that when no entry yields a page and the payload has
\* top-level tables the result is the single page numbered 1 that holds those
\* tables and has no lines and no images.
C6_PagesEmptyOnlyForTables ==
  Returned =>
    \/ \A i \in 1..Len(resultPages) : Len(linesOf(resultPages[i])) >= 1
    \/ /\ Len(resultPages) = 1
       /\ TableOnlyPage(resultPages[1])
       /\ Len(keptEntries) = 0
       /\ tablesOf(resultPages[1]) = normalizeTables(Get(mistralPayload, "tables"))

C6_Witness ==
  /\ Returned
  /\ Len(droppedEntries) >= 1
  /\ Len(resultPages) = 1
  /\ TableOnlyPage(resultPages[1])

\* C7: a page-like entry that yields zero lines after the structured-lines,
\* markdown and text fallbacks produces no Page, even when it carries tables
\* or images, and its tables and images appear in no page of the result.
C7_DroppedEntryLeavesNothing ==
  Returned =>
    LET kept == keptEntries
        dropped == droppedEntries
        resultTables == UNION {idsOf(tablesOf(resultPages[i])) : i \in 1..Len(resultPages)}
        resultImages == UNION {idsOf(imagesOf(resultPages[i])) : i \in 1..Len(resultPages)}
    IN /\ Len(kept) >= 1 => Len(resultPages) = Len(kept)
       /\ \A d \in 1..Len(dropped) :
            /\ idsOf(entryTables(dropped[d])) \cap resultTables = {}
            /\ idsOf(entryImages(dropped[d])) \cap resultImages = {}

C7_Witness ==
  /\ Returned
  /\ Get(mistralPayload, "pages") = Arr(<<pgOrphans, pgLines>>)
  /\ idsOf(entryTables(pgOrphans)) = {Str("T2")}
  /\ idsOf(entryImages(pgOrphans)) = {Str("I2")}
  /\ Len(resultPages) = 1
  /\ idsOf(tablesOf(resultPages[1])) \subseteq {Str("T1"), Str("T9")}

\* the line holds none of the inline markers
MarkerFree(line) ==
  /\ ~Includes(line, "*") /\ ~Includes(line, "_")
  /\ ~Includes(line, "<u>") /\ ~Includes(line, "</u>")
\* the lines of a text that are not blank
NonBlankLines(text) == SelectSeq(Split(text, "\n"), LAMBDA l : Trim(l) # "")
\* a payload of only a string text with k >= 1 non-blank, marker-free lines
\* besides, at most, a document markdown field
TextOnlyPayload ==
  /\ IsObj(mistralPayload)
  /\ Get(mistralPayload, "pages") = Undef
  /\ Get(mistralPayload, "results") = Undef
  /\ Get(mistralPayload, "tables") = Undef
  /\ IsStr(Get(mistralPayload, "text"))
  /\ Len(NonBlankLines(Get(mistralPayload, "text").v)) >= 1
  /\ \A j \in 1..Len(NonBlankLines(Get(mistralPayload, "text").v)) :
       MarkerFree(NonBlankLines(Get(mistralPayload, "text").v)[j])
\* the result is one page numbered 1 whose line j holds the single segment
\* text(j), and the html is not empty
OnePageOfLines(k, text(_)) ==
  /\ Returned
  /\ Len(resultPages) = 1
  /\ Get(resultPages[1], "number") = Num(1)
  /\ Len(linesOf(resultPages[1])) = k
  /\ \A j \in 1..k :
       LET segments == elementsOf(Get(linesOf(resultPages[1])[j], "segments"))
       IN Len(segments) = 1 /\ Get(segments[1], "text") = Str(text(j))
  /\ IsStr(resultHtml) /\ resultHtml.v # ""

NoDataResponse == [status |-> 502, error |-> NoDataMessage]

\* C9: the empty payload {} normalizes to zero pages and null html; the
\* handler of /api/extract answers the no-extractable-content error (502)
\* exactly when the assembler result has zero pages and no non-empty html,
\* and never answers success with pages and html both empty.
C9_EmptyResultIsNoData ==
  /\ Normalized /\ mistralPayload = EmptyObj =>
       /\ Returned
       /\ Get(normalized, "pages") = Arr(<<>>)
       /\ resultHtml = Null
  /\ reqPc = "done" =>
       /\ response = NoDataResponse <=>
            Returned /\ Len(resultPages) = 0 /\ ~Truthy(resultHtml)
       /\ response.status = 200 =>
            Len(response.pages.v) > 0 \/ Truthy(response.html)

C9_Witness ==
  /\ Normalized
  /\ mistralPayload = EmptyObj
  /\ response = NoDataResponse

\* the renderings of the entries that used the markdown fallback, in page order
PageRenderings ==
  Flatten([i \in 1..Len(walkedEntries) |->
    IF /\ structuredLines(walkedEntries[i]) = Arr(<<>>)
       /\ IsStr(Get(walkedEntries[i], "markdown"))
       /\ Trim(Get(walkedEntries[i], "markdown").v) # ""
    THEN <<markdownToHtml(Get(walkedEntries[i], "markdown"))>> ELSE <<>>])
\* no page was assembled and the payload has a non-blank top-level text
LastResort ==
  /\ Len(keptEntries) = 0
  /\ Len(normalizeTables(Get(mistralPayload, "tables"))) = 0
  /\ IsStr(documentText(mistralPayload))
  /\ Trim(documentText(mistralPayload).v) # ""
\* the rendering of the plain-text projection of pages, null when it is empty
ProjectionHtml(pages) ==
  LET projection == pagesToPlainText(pages)
  IN IF projection # "" THEN Str(markdownToHtml(Str(projection))) ELSE Null

RECURSIVE StripMarkers(_)
StripMarkers(line) ==
  IF line = "" THEN ""
  ELSE IF StartsWith(line, "</u>") THEN StripMarkers(Substring(line, 4))
  ELSE IF StartsWith(line, "<u>") THEN StripMarkers(Substring(line, 3))
  ELSE IF StartsWith(line, "**") \/ StartsWith(line, "__")
  THEN StripMarkers(Substring(line, 2))
  ELSE IF StartsWith(line, "*") \/ StartsWith(line, "_")
  THEN StripMarkers(Substring(line, 1))
  ELSE CharAt(line, 0) \o StripMarkers(Substring(line, 1))

\* the texts of the segments, concatenated in order
segmentTexts(segments) == Join([i \in 1..Len(segments) |-> segText(segments[i])], "")

\* C19: the inline parser preserves text exactly: the concatenation of the
\* emitted segment texts, in order, equals the input line with every marker
\* occurrence removed.
C19_TextPreserved ==
  pPc = "returned" => segmentTexts(pResult) = StripMarkers(pText)

\* C20: parseMarkdownToSegments terminates on every input line, also with
\* unterminated or trailing markers: a loop iteration that does not leave
\* the loop strictly shortens the remaining text, every call returns, and
\* the empty input returns the empty sequence.
C20_ParserTerminates ==
  /\ [][pPc = "loop" /\ pPc' = "loop" => Len(pRemaining') < Len(pRemaining)]_vars
  /\ <>(pPc = "returned")
  /\ [](pPc = "returned" /\ pText = "" => pResult = <<>>)

\* a line ending in an unterminated marker was parsed to the end
C20_Witness ==
  /\ pPc = "returned"
  /\ pText = "a**"
  /\ Len(pResult) = 1

\* the marker a text starts with, the longest first; "" when it starts with none
markerAt(text) ==
  IF StartsWith(text, "</u>") THEN "</u>"
  ELSE IF StartsWith(text, "<u>") THEN "<u>"
  ELSE IF StartsWith(text, "**") THEN "**"
  ELSE IF StartsWith(text, "__") THEN "__"
  ELSE IF StartsWith(text, "*") THEN "*"
  ELSE IF StartsWith(text, "_") THEN "_"
  ELSE ""

\* the position of the earliest marker of the text, Len(text) when it has none
RECURSIVE firstMarker(_, _)
firstMarker(text, from) ==
  IF from >= Len(text) \/ markerAt(Substring(text, from)) # "" THEN from
  ELSE firstMarker(text, from + 1)

DoubledNext(text) == markerAt(Substring(text, firstMarker(text, 0))) \in {"**", "__"}

\* the markers of the line, read left to right and the longest first, are all doubled
RECURSIVE OnlyDoubledMarkers(_)
OnlyDoubledMarkers(line) ==
  IF line = "" THEN TRUE
  ELSE IF markerAt(line) \in {"**", "__"} THEN OnlyDoubledMarkers(Substring(line, 2))
  ELSE IF markerAt(line) # "" THEN FALSE
  ELSE OnlyDoubledMarkers(Substring(line, 1))

ConsumedAsPair ==
  pPc = "loop" /\ pPc' = "loop" /\ DoubledNext(pRemaining) =>
    /\ Get(pStyle', "fontWeight") # Get(pStyle, "fontWeight")
    /\ Get(pStyle', "fontWeight") \in {Num(400), Num(600)}
    /\ Get(pStyle', "fontStyle") = Get(pStyle, "fontStyle")
    /\ Get(pStyle', "textDecoration") = Get(pStyle, "textDecoration")
    /\ pRemaining' = Substring(pRemaining, firstMarker(pRemaining, 0) + 2)

\* C21: a doubled marker is never consumed as two singles: when the earliest
\* marker of the remaining text is ** or __ the iteration toggles bold once,
\* leaves the italic state alone and advances past both characters; a line
\* whose only markers are doubled never yields an italic segment
C21_DoubledMarkerIsOneToken ==
  /\ [][ConsumedAsPair]_vars
  /\ [](pPc = "returned" /\ OnlyDoubledMarkers(pText) =>
          \A i \in 1..Len(pResult) : segStyle(pResult[i], "fontStyle") = Str("normal"))

\* the line __a** was parsed to one bold, upright segment
C21_Witness ==
  /\ pPc = "returned"
  /\ pText = "__a**"
  /\ Len(pResult) = 1
  /\ segStyle(pResult[1], "fontWeight") = Num(600)
  /\ segStyle(pResult[1], "fontStyle") = Str("normal")


\* ---------------------------------------------------------------------------
\* /api/extract and the OCR provider

\* the request was sent and no payload came back: callMistralOcr rejected
OcrFailed == reqPc = "done" /\ ocrCalls = 1 /\ mistralPayload = Undef

\* C16: a /api/extract request sends at most one request to the OCR provider,
\* and when that request fails the response is an error response carrying the
\* failure, with no pages and no html, and nothing is extracted locally
C16_OneOcrCallNoFallback ==
  /\ ocrCalls <= 1
  /\ OcrFailed =>
       /\ response.status = 502
       /\ DOMAIN response = {"status", "error"}
       /\ response.error = "Mistral OCR 500: Keine Details"
       /\ normalized = Undef

C16_Witness ==
  /\ OcrFailed
  /\ response.status = 502

----------------------------------------------------------------------------
(* POST /api/export-docx: rendering *)

\* the keys of allowedKeys, in the order normalizeLine writes a style
StyleKeyOrder ==
  <<"fontSize", "fontWeight", "fontStyle", "textDecoration", "fontFamily", "letterSpacing">>

\* key.replace(/[A-Z]/g, (m) => `-${m.toLowerCase()}`) on the allowed keys
cssKey(key) ==
  CASE key = "fontSize" -> "font-size"
    [] key = "fontWeight" -> "font-weight"
    [] key = "fontStyle" -> "font-style"
    [] key = "textDecoration" -> "text-decoration"
    [] key = "fontFamily" -> "font-family"
    [] key = "letterSpacing" -> "letter-spacing"

styleEntries(style) ==
  IF IsObj(style) THEN SelectSeq(StyleKeyOrder, LAMBDA k : k \in DOMAIN style.v) ELSE <<>>

styleStringOf(style, keys) ==
  Join([i \in 1..Len(keys) |-> cssKey(keys[i]) \o ":" \o escapeHtml(Get(style, keys[i]))], ";")

spanOf(text, styleString) ==
  IF text = "" THEN ""
  ELSE IF styleString # "" THEN "<span style=\"" \o styleString \o "\">" \o text \o "</span>"
  ELSE text

segmentToHtml(segment) ==
  spanOf(escapeHtml(OrElse(OptGet(segment, "text"), Str(""))),
         styleStringOf(OptGet(segment, "style"), styleEntries(OptGet(segment, "style"))))

lineSegments(line) == OrElse(OptGet(line, "segments"), Arr(<<>>)).v

renderLineHtml(line) ==
  Trim(Join([i \in 1..Len(lineSegments(line)) |-> segmentToHtml(lineSegments(line)[i])], ""))

getLineAlign(line) ==
  normalizeAlignment(OrElse(OptGet(line, "align"),
                     OrElse(OptGet(line, "textAlign"),
                     OrElse(OptGet(line, "text_align"),
                     OrElse(OptGet(line, "text_alignment"),
                     OrElse(OptGet(line, "justification"), OptGet(line, "justify")))))))

\* `tables`: the tables of the page, tagged
pageTablesOf(page) ==
  [i \in 1..Len(OrElse(Get(page, "tables"), Arr(<<>>)).v) |->
     Spread(OrElse(Get(page, "tables"), Arr(<<>>)).v[i], Obj([type |-> Str("table")]))]

\* `tableZones`: the bounding boxes that are arrays of four
tableZones(tables) ==
  SelectSeq([i \in 1..Len(tables) |-> Get(tables[i], "boundingBox")],
            LAMBDA bbox : IsArr(bbox) /\ Len(bbox.v) = 4)

\* the point test with all four bounds exclusive
isStrictlyInsideTable(lx, ly, zones) ==
  \E i \in 1..Len(zones) :
    /\ lx.v > zones[i].v[1].v /\ lx.v < zones[i].v[3].v
    /\ ly.v > zones[i].v[2].v /\ ly.v < zones[i].v[4].v

\* `isInsideTable`
isInsideTable(lx, ly, zones) ==
  \E i \in 1..Len(zones) :
    /\ lx.v >= zones[i].v[1].v /\ lx.v <= zones[i].v[3].v
    /\ ly.v >= zones[i].v[2].v /\ ly.v <= zones[i].v[4].v

linePoint(line, axis) ==
  Coalesce(Get(line, axis),
  Coalesce(OptGet(OptGet(Get(line, "meta"), "position"), axis), Num(0)))

\* `lines`: the lines of the page outside every zone, tagged
pageLinesOutside(page, zones) ==
  LET kept == SelectSeq(OrElse(Get(page, "lines"), Arr(<<>>)).v,
                        LAMBDA line : ~isInsideTable(linePoint(line, "x"),
                                                     linePoint(line, "y"), zones))
  IN [i \in 1..Len(kept) |-> Spread(kept[i], Obj([type |-> Str("line")]))]

\* a.y ?? a.boundingBox?.[1] ?? 0
sortKey(el) ==
  Coalesce(Get(el, "y"),
  Coalesce(IF Nullish(Get(el, "boundingBox")) THEN Undef
           ELSE Index(Get(el, "boundingBox"), 1), Num(0))).v

\* the sort left out: the elements as concatenated
sortByYKeepOrder(elements) == elements

\* elements.sort((a, b) => ay - by): a stable sort, as an insertion sort
RECURSIVE insertByY(_, _)
insertByY(sorted, el) ==
  IF sorted = <<>> THEN <<el>>
  ELSE IF sortKey(sorted[Len(sorted)]) <= sortKey(el) THEN Append(sorted, el)
  ELSE Append(insertByY(SubSeq(sorted, 1, Len(sorted) - 1), el), sorted[Len(sorted)])

RECURSIVE sortFrom(_, _, _)
sortFrom(elements, i, sorted) ==
  IF i > Len(elements) THEN sorted
  ELSE sortFrom(elements, i + 1, insertByY(sorted, elements[i]))

sortByY(elements) == sortFrom(elements, 1, <<>>)

\* `elements`
pageElements(page) ==
  sortByY(pageLinesOutside(page, tableZones(pageTablesOf(page))) \o pageTablesOf(page))

lineStyles(align, xPos) ==
  (IF align # Null /\ align # Str("left") THEN <<"text-align:" \o align.v>> ELSE <<>>)
    \o (IF align = Str("left") /\ IsNum(xPos) /\ xPos.v > 10
        THEN <<"margin-left:" \o IntToString(IF xPos.v < 400 THEN xPos.v ELSE 400) \o "px">>
        ELSE <<>>)

paragraphOf(lineHtml, styles) ==
  IF lineHtml = "" THEN <<>>
  ELSE <<"<p" \o (IF Len(styles) > 0 THEN " style=\"" \o Join(styles, ";") \o "\"" ELSE "")
           \o ">" \o lineHtml \o "</p>">>

\* the parts one element pushes: none or one
elementParts(el) ==
  IF Get(el, "type") = Str("table")
  THEN (IF Truthy(Get(el, "html"))
        THEN <<"<div class=\"table-block\">" \o Get(el, "html").v \o "</div>">>
        ELSE <<>>)
  ELSE paragraphOf(renderLineHtml(el),
                   lineStyles(getLineAlign(el),
                              OrElse(Get(el, "x"),
                              OrElse(OptGet(OptGet(Get(el, "meta"), "position"), "x"),
                                     Num(0)))))

----------------------------------------------------------------------------
(* POST /api/export-docx: captions *)

NoCaption == "Bildbeschreibung konnte nicht erzeugt werden."
NotAvailable == "Bildbeschreibung nicht verfügbar."

\* image.id || image.base64.slice(0, 16)
imageKey(image) ==
  ToStringJS(OrElse(Get(image, "id"), Str(SubSeq(Get(image, "base64").v, 1,
      IF Len(Get(image, "base64").v) < 16 THEN Len(Get(image, "base64").v) ELSE 16))))

\* descriptions[key], undefined when absent
described(d, key) == IF key \in DOMAIN d THEN Str(d[key]) ELSE Undef

setDescription(d, key, value) ==
  [k \in DOMAIN d \cup {key} |-> IF k = key THEN value ELSE d[k]]

\* page.images of every page that has an array of images, in order
RECURSIVE allImages(_)
allImages(pages) ==
  IF pages = <<>> THEN <<>>
  ELSE (IF IsArr(Get(pages[1], "images")) THEN Get(pages[1], "images").v ELSE <<>>)
         \o allImages(Tail(pages))

skipsImage(image) ==
  ~Truthy(OptGet(image, "base64")) \/ Truthy(Get(image, "_removed"))

hasOwnDescription(image) ==
  Truthy(Get(image, "_replaceWithDescription")) /\ Truthy(Get(image, "_description"))

\* captionLoop without `if (descriptions[key]) continue`
RECURSIVE captionLoopUncached(_, _, _)
captionLoopUncached(images, i, d) ==
  IF i > Len(images) THEN [cursor |-> i, descriptions |-> d, call |-> FALSE]
  ELSE IF skipsImage(images[i]) THEN captionLoopUncached(images, i + 1, d)
  ELSE IF hasOwnDescription(images[i])
    THEN captionLoopUncached(images, i + 1,
           setDescription(d, imageKey(images[i]), Get(images[i], "_description").v))
  ELSE [cursor |-> i, descriptions |-> d, call |-> TRUE]

\* the caption loop from image i on, up to the next describeImageWithVision
\* call or to its end
RECURSIVE captionLoop(_, _, _)
captionLoop(images, i, d) ==
  IF i > Len(images) THEN [cursor |-> i, descriptions |-> d, call |-> FALSE]
  ELSE IF skipsImage(images[i]) THEN captionLoop(images, i + 1, d)
  ELSE IF hasOwnDescription(images[i])
    THEN captionLoop(images, i + 1,
           setDescription(d, imageKey(images[i]), Get(images[i], "_description").v))
  ELSE IF Truthy(described(d, imageKey(images[i]))) THEN captionLoop(images, i + 1, d)
  ELSE [cursor |-> i, descriptions |-> d, call |-> TRUE]

\* every call the rest of the loop would make, started at once
unawaitedCalls(images, loop) ==
  IF loop.call
  THEN {j \in loop.cursor..Len(images) :
          ~skipsImage(images[j]) /\ ~hasOwnDescription(images[j])}
  ELSE {}

\* `await describeImageWithVision(...)`: the loop stands at the call it made
awaitedCalls(images, loop) == IF loop.call THEN {loop.cursor} ELSE {}

\* the caption of one image of the page section
imageCaption(img, key, d) ==
  OrElse(IF Truthy(Get(img, "_replaceWithDescription")) THEN Get(img, "_description")
         ELSE Get(img, "_replaceWithDescription"),
  OrElse(described(d, key), Str(NotAvailable)))

imageParts(img, key, disableDescriptions, d) ==
  IF disableDescriptions
  THEN (IF Truthy(Get(img, "base64")) /\ ~Truthy(Get(img, "_replaceWithDescription"))
        THEN <<"<p><img alt=\"Bild\" style=\"max-width:100%;height:auto;\" src=\"data:image/jpeg;base64,"
                 \o Get(img, "base64").v \o "\"/></p>">>
        ELSE IF Truthy(Get(img, "_description"))
        THEN <<"<p><strong>Bild:</strong> " \o escapeHtml(Get(img, "_description")) \o "</p>">>
        ELSE <<>>)
  ELSE <<"<p><strong>Bild:</strong> " \o escapeHtml(imageCaption(img, key, d)) \o "</p>">>

\* img.id || img.base64?.slice(0, 16) || `${page.number}-${idx}`
sectionImageKey(img, page, idx) ==
  IF Truthy(Get(img, "id")) \/ Truthy(Get(img, "base64")) THEN imageKey(img)
  ELSE ToStringJS(Get(page, "number")) \o "-" \o IntToString(idx)

validImagesOf(page) ==
  IF IsArr(Get(page, "images"))
  THEN SelectSeq(Get(page, "images").v, LAMBDA img : ~Truthy(Get(img, "_removed")))
  ELSE <<>>

pageImageParts(page, valid, disableDescriptions, d) ==
  IF Len(valid) = 0 THEN <<>>
  ELSE <<"<br/>">> \o Flatten([i \in 1..Len(valid) |->
            imageParts(valid[i], sectionImageKey(valid[i], page, i - 1),
                       disableDescriptions, d)])

elementsParts(elements) == Flatten([i \in 1..Len(elements) |-> elementParts(elements[i])])

\* what pages.forEach pushes for one page
pageParts(page, disableDescriptions, d) ==
  <<"<h2>Seite " \o escapeHtml(OrElse(Get(page, "number"), Str(""))) \o "</h2>">>
    \o elementsParts(pageElements(page))
    \o pageImageParts(page, validImagesOf(page), disableDescriptions, d)
    \o <<"<hr />">>

\* `bodyParts` at the end of the handler
exportBody(req, d) ==
  <<"<h1>PDF-Export</h1>">>
    \o (IF Len(req.pages) > 0
        THEN Flatten([i \in 1..Len(req.pages) |->
                        pageParts(req.pages[i], req.disableDescriptions, d)])
        ELSE (IF req.html # "" THEN <<req.html>> ELSE <<>>))

----------------------------------------------------------------------------
(* POST /api/export-docx: requests and the handler *)

MaxExportLines == 2
MaxExportTables == 2
MaxImages == 2

exportLine(text, x, y, alignment) ==
  normalizeLine(Obj([text |-> Str(text), x |-> Num(x), y |-> Num(y),
                     alignment |-> Str(alignment)]), 0)

\* lines around the zone [0, 90, 200, 150]: inside, far below, on two corners,
\* one past the right edge, one above the top edge, a line without x, and
\* lines close to the left margin and far to the right
ExportLines ==
  {exportLine("L1", 50, 100, "left"),
   exportLine("L2", 50, 200, "left"),
   exportLine("L3", 0, 90, "left"),
   exportLine("L4", 200, 150, "center"),
   exportLine("L5", 201, 100, "left"),
   exportLine("L6", 50, 89, "left"),
   simpleLine("L7", 5),
   exportLine("L8", 5, 300, "left"),
   exportLine("L9", 500, 300, "left")}

\* a table with a zone, one without, one with a zone holding no line
ExportTables ==
  {normalizeTable(tblPage, 0),
   normalizeTable(Obj([id |-> Str("T2"), rows |-> Arr(<<Arr(<<Str("k")>>)>>),
                       y |-> Num(200)]), 1),
   normalizeTable(Obj([id |-> Str("T3"), rows |-> Arr(<<Arr(<<Str("m")>>)>>),
                       geometry |-> Obj([bounding_box |->
                         Arr(<<Num(300), Num(90), Num(400), Num(150)>>)])]), 2)}

exportImage(raw, flags) == Spread(normalizeImage(raw), Obj(flags))

\* images sharing the key "A", images sharing their first 16 characters,
\* a removed one, one with its own description, one without payload
ExportImages ==
  {exportImage(Obj([id |-> Str("A"), image_base64 |-> Str("QUFB")]), EmptyObj.v),
   exportImage(Obj([id |-> Str("A"), image_base64 |-> Str("QkJC")]), EmptyObj.v),
   exportImage(Obj([image_base64 |-> Str("0123456789abcdefXX")]), EmptyObj.v),
   exportImage(Obj([image_base64 |-> Str("0123456789abcdefYY")]), EmptyObj.v),
   exportImage(Obj([id |-> Str("R"), image_base64 |-> Str("UlJS")]),
               [_removed |-> Bool(TRUE)]),
   exportImage(Obj([id |-> Str("A"), image_base64 |-> Str("T09P")]),
               [_replaceWithDescription |-> Bool(TRUE), _description |-> Str("own")]),
   exportImage(Obj([id |-> Str("N")]), EmptyObj.v)}

\* pages of lines and tables, without images
LayoutPages ==
  {Obj([number |-> Num(1), lines |-> Arr(ls), images |-> Arr(<<>>), tables |-> Arr(ts)]) :
     ls \in SeqsUpTo(ExportLines, MaxExportLines),
     ts \in SeqsUpTo(ExportTables, MaxExportTables)}

\* pages of one line and images
ImagePages(number, imageLists) ==
  {Obj([number |-> Num(number),
        lines |-> Arr(<<exportLine("L2", 50, 200, "left")>>),
        images |-> Arr(is), tables |-> Arr(<<>>)]) : is \in imageLists}

SecondPageImages ==
  {<<>>,
   <<exportImage(Obj([id |-> Str("A"), image_base64 |-> Str("QkJC")]), EmptyObj.v)>>,
   <<exportImage(Obj([id |-> Str("B"), image_base64 |-> Str("Q0ND")]), EmptyObj.v)>>}

\* one page to lay out, descriptions disabled
LayoutRequests ==
  {[pages |-> <<pg>>, html |-> "", disableDescriptions |-> TRUE, apiKey |-> FALSE] :
     pg \in LayoutPages}

\* two pages with images
CaptionRequests ==
  {[pages |-> <<p1, p2>>, html |-> "", disableDescriptions |-> dd, apiKey |-> k] :
     p1 \in ImagePages(1, SeqsUpTo(ExportImages, MaxImages)),
     p2 \in ImagePages(2, SecondPageImages),
     dd \in BOOLEAN, k \in BOOLEAN}

\* no page, with or without html
HtmlRequests ==
  {[pages |-> <<>>, html |-> h, disableDescriptions |-> dd, apiKey |-> k] :
     h \in {"", "<p>x</p>"}, dd \in BOOLEAN, k \in BOOLEAN}

ExportRequests == LayoutRequests \cup CaptionRequests \cup HtmlRequests

ExportReceived(requests) ==
  /\ exRequest \in requests
  /\ exPc = "received" /\ exCursor = 0
  /\ descriptions = NoDescriptions /\ inFlight = {} /\ visionCalls = <<>>
  /\ exResponse = Undef
  /\ ParseIdle /\ LineIdle /\ ExtractIdle /\ TableIdle /\ UiIdle

InitExport == ExportReceived(ExportRequests)

InitCaptions == ExportReceived(CaptionRequests)

exportRefused(message) ==
  /\ exResponse' = [status |-> 400, error |-> message]
  /\ exPc' = "done"
  /\ UNCHANGED <<exCursor, descriptions, inFlight, visionCalls>>

\* res.send(htmlDoc): the document is the style sheet around `bodyParts`
exportSent ==
  /\ exResponse' = [status |-> 200, contentType |-> "application/msword"]
  /\ exPc' = "done"

\* the caption loop went on from `loop` after the calls of `log`: it stands at
\* its next call, or it is over and the document is rendered and sent
exportContinue(images, loop, log) ==
  /\ exCursor' = loop.cursor
  /\ descriptions' = loop.descriptions
  /\ inFlight' = awaitedCalls(images, loop)
  /\ IF loop.call
     THEN /\ visionCalls' = Append(log, [image |-> loop.cursor,
                                         key |-> imageKey(images[loop.cursor]),
                                         outcome |-> "pending"])
          /\ exPc' = "vision"
          /\ UNCHANGED exResponse
     ELSE /\ visionCalls' = log
          /\ exportSent

\* the handler up to its first await, or to its response
ExportBegin ==
  /\ exPc = "received"
  /\ IF ~exRequest.disableDescriptions /\ ~exRequest.apiKey
     THEN exportRefused("Bitte eigenen Mistral API-Key angeben.")
     ELSE IF Len(exRequest.pages) = 0 /\ exRequest.html = ""
     THEN exportRefused("Keine Inhalte zum Export übergeben.")
     ELSE IF exRequest.disableDescriptions
     THEN /\ exportSent
          /\ UNCHANGED <<exCursor, descriptions, inFlight, visionCalls>>
     ELSE \E images \in {allImages(exRequest.pages)} :
            \E loop \in {captionLoop(images, 1, NoDescriptions)} :
              exportContinue(images, loop, visionCalls)
  /\ UNCHANGED <<exRequest, parseVars, lineVars, extractVars, tableVars, uiVars>>

settled(log, outcome) == [log EXCEPT ![Len(log)].outcome = outcome]

\* what describeImageWithVision resolves to: a caption of the payload it was
\* given, an empty string, or null
VisionResults(image) == {Str("cap " \o Get(image, "base64").v), Str(""), Null}

\* describeImageWithVision resolves: the caption or the placeholder is cached
\* under the key and the loop goes on
VisionResolve ==
  /\ exPc = "vision"
  /\ \E images \in {allImages(exRequest.pages)} :
       \E i \in inFlight :
         \E result \in VisionResults(images[i]) :
           \E loop \in {captionLoop(images, i + 1,
                                     setDescription(descriptions, imageKey(images[i]),
                                                    OrElse(result, Str(NoCaption)).v))} :
             exportContinue(images, loop,
                            settled(visionCalls,
                                    IF Truthy(result) THEN "caption" ELSE "nothing"))
  /\ UNCHANGED <<exRequest, parseVars, lineVars, extractVars, tableVars, uiVars>>

\* a rejected call ending the request in the outer catch block
VisionRejectAbort ==
  /\ exPc = "vision"
  /\ inFlight # {}
  /\ exResponse' = [status |-> 500, error |-> "Vision-Call fehlgeschlagen: 500 "]
  /\ exPc' = "done"
  /\ inFlight' = {}
  /\ visionCalls' = settled(visionCalls, "failed")
  /\ UNCHANGED <<exRequest, exCursor, descriptions,
                 parseVars, lineVars, extractVars, tableVars, uiVars>>

\* describeImageWithVision rejects: the inner catch block caches the
\* placeholder under the key and the loop goes on
VisionReject ==
  /\ exPc = "vision"
  /\ \E images \in {allImages(exRequest.pages)} :
       \E i \in inFlight :
         \E loop \in {captionLoop(images, i + 1,
                                   setDescription(descriptions, imageKey(images[i]),
                                                  NoCaption))} :
           exportContinue(images, loop, settled(visionCalls, "failed"))
  /\ UNCHANGED <<exRequest, parseVars, lineVars, extractVars, tableVars, uiVars>>

\* `bodyParts` of the document sent: the handler renders it from the request
\* and the captions it holds when the caption loop is over
bodyParts ==
  IF exPc = "done" /\ exResponse.status = 200
  THEN exportBody(exRequest, descriptions) ELSE <<>>

NextExport == ExportBegin \/ VisionResolve \/ VisionReject

SpecExport == InitExport /\ [][NextExport]_vars

\* the requests with images; every call to the vision model returns or
\* fails, and the handler runs on
SpecCaptionsFair == InitCaptions /\ [][NextExport]_vars /\ WF_vars(NextExport)

----------------------------------------------------------------------------
(* Calls of normalizeTable *)

MaxCells == 2
MaxTableIndex == 1

\* raw cells: strings, a missing cell, cell objects with aliases and spans
TableCells ==
  {Str("a"), Str("x<y"), Str(""), Null,
   Obj([text |-> Str("b"), header |-> Bool(TRUE)]),
   Obj([content |-> Str("c&d"), colspan |-> Str("2")]),
   Str("p\tq"), Str("m\nn")}

TableRows == SeqsUpTo(TableCells, MaxCells)

\* what may follow the first row: rows, a row object, and entries that are no rows
SecondRows ==
  {Arr(<<Str("z")>>), Obj([cells |-> Arr(<<Null, Str("w")>>)]), Str("no row"), Arr(<<>>)}

RawTables ==
  {Obj([rows |-> Arr(<<Arr(r)>>)]) : r \in TableRows}
    \cup {Obj([data |-> Arr(<<Arr(r), s>>)]) : r \in TableRows, s \in SecondRows}
    \cup {tblPage, tblOrphan, tblTop, tblNoRows, Null}

InitTable ==
  /\ tblArg \in RawTables
  /\ tblIdx \in 0..MaxTableIndex
  /\ tblOut = Undef /\ tblPc = "call"
  /\ ParseIdle /\ LineIdle /\ ExtractIdle /\ ExportIdle /\ UiIdle

TableNormalize ==
  /\ tblPc = "call"
  /\ tblOut' = normalizeTable(tblArg, tblIdx)
  /\ tblPc' = "returned"
  /\ UNCHANGED <<tblArg, tblIdx, parseVars, lineVars, extractVars, exportVars, uiVars>>

NextTable == TableNormalize

SpecTable == InitTable /\ [][NextTable]_vars

\* the inverse of escapeHtml
RECURSIVE unescapeHtml(_)
unescapeHtml(s) ==
  IF s = "" THEN ""
  ELSE IF StartsWith(s, "&amp;") THEN "&" \o unescapeHtml(Substring(s, 5))
  ELSE IF StartsWith(s, "&lt;") THEN "<" \o unescapeHtml(Substring(s, 4))
  ELSE IF StartsWith(s, "&gt;") THEN ">" \o unescapeHtml(Substring(s, 4))
  ELSE IF StartsWith(s, "&quot;") THEN "\"" \o unescapeHtml(Substring(s, 6))
  ELSE CharAt(s, 0) \o unescapeHtml(Substring(s, 1))

\* the cell contents of the <td>/<th> elements of one <tr>, in order
RECURSIVE markupCells(_)
markupCells(row) ==
  IF row = "" THEN <<>>
  ELSE LET content == Substring(row, IndexOf(row, ">") + 1)
       IN <<unescapeHtml(Substring2(content, 0, IndexOf(content, "<")))>>
            \o markupCells(Substring(content, IndexOf(content, "<") + 5))

\* the rows of cell contents between <table> and </table>
RECURSIVE markupRows(_)
markupRows(inner) ==
  IF inner = "" THEN <<>>
  ELSE <<markupCells(Substring2(inner, 4, IndexOf(inner, "</tr>")))>>
         \o markupRows(Substring(inner, IndexOf(inner, "</tr>") + 5))

markupOf(table) ==
  markupRows(Substring2(Get(table, "html").v, 7, Len(Get(table, "html").v) - 8))

\* the rows of cell contents of the plain-text projection
textRowsOf(lines) == [i \in 1..Len(lines) |-> Split(lines[i], "\t")]
projectionOf(table) == textRowsOf(Split(Get(table, "text").v, "\n"))

TableReturned == tblPc = "returned" /\ IsObj(tblOut)

\* C17: for every table returned by normalizeTable the markup and the
\* plain-text projection describe the same cells in the same order: as many
\* <tr> rows as text rows, as many cells in each row, and the same unescaped
\* content in each cell
C17_MarkupMatchesProjection ==
  TableReturned => markupOf(tblOut) = projectionOf(tblOut)

----------------------------------------------------------------------------
(* Segment styles: raw style inputs through normalizeLine, lines through the
   inline parser *)

RawFontSizes ==
  {Undef, Null, Num(12), Str("14px"), Str(" 9 "), Str("big"), Bool(TRUE), Str(""), Str("12pt")}
RawFontWeights == {Undef, Str("Bold"), Num(700), Str("semibold")}
RawFontStyles == {Undef, Str("Italic"), Str("oblique")}
RawDecorations ==
  {Undef, Str("Underline"), Str("line-through underline"), Str("strikethrough"), Num(1)}
RawFlags == {Undef, Bool(TRUE)}

\* the style fields of a raw segment
RawStyles ==
  {Props([fontSize |-> fs, fontWeight |-> fw, fontStyle |-> st,
          textDecoration |-> td, underline |-> un, strike |-> sk]) :
     fs \in RawFontSizes, fw \in RawFontWeights, st \in RawFontStyles,
     td \in RawDecorations, un \in RawFlags, sk \in RawFlags}

\* a line of one segment: the style on the segment, in its `style` object,
\* or the flags on the segment beside a `style` object
StyledLines ==
  {Obj([segments |-> Arr(<<Obj([text |-> Str("t")] @@ r.v)>>)]) : r \in RawStyles}
    \cup {Obj([segments |-> Arr(<<Obj([text |-> Str("t"), style |-> r])>>)]) :
            r \in RawStyles}
    \cup {Obj([segments |-> Arr(<<Props([text |-> Str("t"), underline |-> un,
                                          isStrike |-> sk,
                                          style |-> Obj([fontSize |-> Num(12)])])>>)]) :
            un \in RawFlags, sk \in RawFlags}

InitStyledLine ==
  /\ lineArg \in StyledLines
  /\ lineIdx = 0
  /\ lineOut = Undef /\ lineAgain = Undef /\ linePc = "call"
  /\ ParseIdle /\ ExtractIdle /\ TableIdle /\ ExportIdle /\ UiIdle

InitStyle == InitParse \/ InitLine \/ InitStyledLine

NextStyle == NextParse \/ NextLine

SpecStyle == InitStyle /\ [][NextStyle]_vars

FontWeights == {Num(400), Num(600)}
FontStyles == {Str("normal"), Str("italic")}
TextDecorations ==
  {Str("none"), Str("underline"), Str("line-through"), Str("underline line-through")}

CompleteStyle(segment) ==
  /\ \A k \in StyleFields : ~Nullish(segStyle(segment, k))
  /\ segStyle(segment, "fontWeight") \in FontWeights
  /\ segStyle(segment, "fontStyle") \in FontStyles
  /\ segStyle(segment, "textDecoration") \in TextDecorations

AllComplete(segments) == \A i \in 1..Len(segments) : CompleteStyle(segments[i])

segmentsOf(line) == IF IsObj(line) THEN Get(line, "segments").v ELSE <<>>

\* C18: every segment emitted by normalizeLine or by the inline parser has a
\* complete Style: the six fields are defined, fontWeight is 400 or 600,
\* fontStyle is normal or italic, and textDecoration is one of none,
\* underline, line-through, underline line-through
C18_StylesComplete ==
  /\ AllComplete(pSegments)
  /\ AllComplete(pResult)
  /\ AllComplete(segmentsOf(lineOut))
  /\ AllComplete(segmentsOf(lineAgain))

\* a raw segment with a numeric weight, an unknown size word and a
\* strikethrough decoration has been normalized
C18_Witness ==
  /\ linePc = "once"
  /\ lineArg \in StyledLines
  /\ Get(lineArg.v.segments.v[1], "textDecoration") = Str("strikethrough")
  /\ Get(lineArg.v.segments.v[1], "fontSize") = Str("big")
  /\ Len(segmentsOf(lineOut)) = 1
  /\ segStyle(segmentsOf(lineOut)[1], "textDecoration") = Str("line-through")

----------------------------------------------------------------------------
(* Claims about POST /api/export-docx *)

ExportSent == exPc = "done" /\ exResponse # Undef /\ exResponse.status = 200
Reflowed == ExportSent /\ Len(exRequest.pages) > 0

headingParts(parts) == {i \in 1..Len(parts) : StartsWith(parts[i], "<h2>")}
headingOf(parts, p) ==
  CHOOSE i \in headingParts(parts) : Cardinality({j \in headingParts(parts) : j < i}) = p - 1
rulerAfter(parts, start) == SetMin({i \in start..Len(parts) : parts[i] = "<hr />"})

\* the parts of page p: what lies between its heading and its ruler
sectionIn(parts, p) ==
  SubSeq(parts, headingOf(parts, p) + 1, rulerAfter(parts, headingOf(parts, p)) - 1)

\* the sections of the pages of the document sent
sectionsOf(parts) == [p \in 1..Len(exRequest.pages) |-> sectionIn(parts, p)]

lineTextOf(line) == segText(Get(line, "segments").v[1])
IsLinePart(part) == StartsWith(part, "<p") /\ EndsWith(part, "</span></p>")
IsTablePart(part) == StartsWith(part, "<div class=\"table-block\">")
\* the lines of the requests have one segment, the paragraph ends with it
ShowsLine(part, line) ==
  StartsWith(part, "<p") /\ EndsWith(part, ">" \o lineTextOf(line) \o "</span></p>")
ShowsTable(part, table) ==
  part = "<div class=\"table-block\">" \o Get(table, "html").v \o "</div>"

Emitted(section, line) == \E i \in 1..Len(section) : ShowsLine(section[i], line)
EmittedTable(section, table) == \E i \in 1..Len(section) : ShowsTable(section[i], table)

\* the position of a line: its x and y, 0 where it has none
positionOf(line, axis) == IF IsNum(Get(line, axis)) THEN Get(line, axis).v ELSE 0

InsideBox(line, table) ==
  /\ IsArr(Get(table, "boundingBox"))
  /\ Len(Get(table, "boundingBox").v) = 4
  /\ Get(table, "boundingBox").v[1].v <= positionOf(line, "x")
  /\ positionOf(line, "x") <= Get(table, "boundingBox").v[3].v
  /\ Get(table, "boundingBox").v[2].v <= positionOf(line, "y")
  /\ positionOf(line, "y") <= Get(table, "boundingBox").v[4].v

OmittedIffInside(section, lines, tables) ==
  /\ \A i \in 1..Len(lines) :
       ~Emitted(section, lines[i]) <=> \E t \in 1..Len(tables) : InsideBox(lines[i], tables[t])
  /\ \A t \in 1..Len(tables) :
       Truthy(Get(tables[t], "html")) => EmittedTable(section, tables[t])

\* C11: in the re-flow of a page a line is omitted from the output if and
\* only if its (x, y) position lies inside the four-element bounding box of a
\* table of that page, all four bounds inclusive; every table with markup is
\* emitted
OmittedOnEveryPage(sections) ==
  \A p \in 1..Len(exRequest.pages) :
    OmittedIffInside(sections[p], Get(exRequest.pages[p], "lines").v,
                     Get(exRequest.pages[p], "tables").v)

C11_LinesOmittedIffInsideTable == Reflowed => OmittedOnEveryPage(sectionsOf(bodyParts))

TableThenLine(section, line) ==
  /\ Len(section) = 2
  /\ IsTablePart(section[1])
  /\ ShowsLine(section[2], line)

\* the line at (50, 100) is omitted and the line at (50, 200) is kept beside
\* the table with the box [0, 90, 200, 150]
C11_Witness ==
  /\ Reflowed
  /\ Len(exRequest.pages) = 1
  /\ Get(exRequest.pages[1], "lines").v
       = <<exportLine("L1", 50, 100, "left"), exportLine("L2", 50, 200, "left")>>
  /\ Get(exRequest.pages[1], "tables").v = <<normalizeTable(tblPage, 0)>>
  /\ TableThenLine(sectionIn(bodyParts, 1), exportLine("L2", 50, 200, "left"))

\* where an emitted part comes from: the first line or table of the page it shows
originOf(part, lines, tables) ==
  IF IsTablePart(part)
  THEN SetMin({t \in 1..Len(tables) : ShowsTable(part, tables[t])})
  ELSE SetMin({i \in 1..Len(lines) : ShowsLine(part, lines[i])})

verticalOf(part, lines, tables) ==
  IF IsTablePart(part)
  THEN Get(tables[originOf(part, lines, tables)], "y").v
  ELSE positionOf(lines[originOf(part, lines, tables)], "y")

elementPartsOf(section) == SelectSeq(section, LAMBDA part : IsLinePart(part) \/ IsTablePart(part))

\* what an emitted part shows: the text of its line, or its whole table block
shownBy(part, lines, tables) ==
  IF IsTablePart(part) THEN part ELSE lineTextOf(lines[originOf(part, lines, tables)])

\* the emitted lines (or tables) at vertical position y, in output order
emittedAt(parts, lines, tables, y, asTable) ==
  LET there == SelectSeq(parts, LAMBDA part :
                 IsTablePart(part) = asTable /\ verticalOf(part, lines, tables) = y)
  IN [i \in 1..Len(there) |-> shownBy(there[i], lines, tables)]

\* the lines of the page at y that are emitted at all, in input order
linesGivenAt(parts, lines, y) ==
  LET there == SelectSeq(lines, LAMBDA line :
                 positionOf(line, "y") = y /\ Emitted(parts, line))
  IN [i \in 1..Len(there) |-> lineTextOf(there[i])]

\* the tables of the page at y, in input order
tablesGivenAt(tables, y) ==
  LET there == SelectSeq(tables, LAMBDA table :
                 Get(table, "y").v = y /\ Truthy(Get(table, "html")))
  IN [i \in 1..Len(there) |-> "<div class=\"table-block\">" \o Get(there[i], "html").v \o "</div>"]

InReadingOrder(parts, lines, tables) ==
  /\ \A i \in 1..Len(parts) : \A j \in (i + 1)..Len(parts) :
       verticalOf(parts[i], lines, tables) <= verticalOf(parts[j], lines, tables)
  /\ \A y \in {verticalOf(parts[k], lines, tables) : k \in 1..Len(parts)} :
       /\ emittedAt(parts, lines, tables, y, FALSE) = linesGivenAt(parts, lines, y)
       /\ emittedAt(parts, lines, tables, y, TRUE) = tablesGivenAt(tables, y)

\* C12: in the re-flow of a page the retained lines and the tables are
\* emitted in non-decreasing vertical position, and two lines, or two tables,
\* with equal vertical position keep their input order
OrderedOnEveryPage(sections) ==
  \A p \in 1..Len(exRequest.pages) :
    InReadingOrder(elementPartsOf(sections[p]),
                   Get(exRequest.pages[p], "lines").v,
                   Get(exRequest.pages[p], "tables").v)

C12_EmittedByVerticalPosition == Reflowed => OrderedOnEveryPage(sectionsOf(bodyParts))

LineLineTable(section, first, second) ==
  /\ Len(section) = 3
  /\ ShowsLine(section[1], first)
  /\ ShowsLine(section[2], second)
  /\ IsTablePart(section[3])

\* lines given as y 200, y 89 and a table at y 200 come out as 89, 200, table
C12_Witness ==
  /\ Reflowed
  /\ Len(exRequest.pages) = 1
  /\ Get(exRequest.pages[1], "lines").v
       = <<exportLine("L2", 50, 200, "left"), exportLine("L6", 50, 89, "left")>>
  /\ Len(Get(exRequest.pages[1], "tables").v) = 1
  /\ Get(Get(exRequest.pages[1], "tables").v[1], "y") = Num(200)
  /\ LineLineTable(sectionIn(bodyParts, 1), exportLine("L6", 50, 89, "left"),
                   exportLine("L2", 50, 200, "left"))

ExportImagesOf == allImages(exRequest.pages)

\* the caption the call `c` left for its key
captionOf(c) ==
  IF c.outcome = "caption" THEN "cap " \o Get(ExportImagesOf[c.image], "base64").v
  ELSE NoCaption

captionPart(text) == "<p><strong>Bild:</strong> " \o escapeChars(text) \o "</p>"

\* no image brings its own description for the key
KeyOnlyCalled(key) ==
  \A i \in 1..Len(ExportImagesOf) :
    hasOwnDescription(ExportImagesOf[i]) /\ Truthy(Get(ExportImagesOf[i], "base64"))
      => imageKey(ExportImagesOf[i]) # key

\* the images of page p that are shown and have the key
sharersOn(p, key) ==
  {i \in 1..Len(Get(exRequest.pages[p], "images").v) :
     /\ ~Truthy(Get(Get(exRequest.pages[p], "images").v[i], "_removed"))
     /\ Truthy(Get(Get(exRequest.pages[p], "images").v[i], "base64"))
     /\ imageKey(Get(exRequest.pages[p], "images").v[i]) = key}

CaptionShared(sections, c) ==
  \A p \in 1..Len(exRequest.pages) :
    sharersOn(p, c.key) # {} =>
      \E i \in 1..Len(sections[p]) : sections[p][i] = captionPart(captionOf(c))

CaptionsShared(sections) ==
  \A i \in 1..Len(visionCalls) :
    KeyOnlyCalled(visionCalls[i].key) => CaptionShared(sections, visionCalls[i])

\* C13: within one export request with descriptions enabled at most one
\* vision call is made per cache key over all pages, and every shown image
\* with that key carries the caption the one call left, the placeholder when
\* the call failed or returned nothing
C13_OneVisionCallPerKey ==
  /\ \A i \in 1..Len(visionCalls) : \A j \in (i + 1)..Len(visionCalls) :
       visionCalls[i].key # visionCalls[j].key
  /\ ExportSent /\ Len(exRequest.pages) > 0 => CaptionsShared(sectionsOf(bodyParts))

\* the call for key "A" on page 1 failed; page 2 shows another image with key
\* "A" and no second call was made
C13_Witness ==
  /\ ExportSent
  /\ Len(visionCalls) = 1
  /\ visionCalls[1].key = "A"
  /\ visionCalls[1].outcome = "failed"
  /\ KeyOnlyCalled("A")
  /\ sharersOn(1, "A") # {}
  /\ sharersOn(2, "A") # {}

PendingCalls == {i \in 1..Len(visionCalls) : visionCalls[i].outcome = "pending"}

\* C14: the vision calls of one export request are strictly sequential: at
\* most one call is in flight, and a call is only started when every earlier
\* one has returned or failed
C14_VisionCallsSequential ==
  /\ Cardinality(inFlight) <= 1
  /\ PendingCalls \subseteq {Len(visionCalls)}
  /\ inFlight = {visionCalls[i].image : i \in PendingCalls}

\* a second call is in flight after the first one was settled
C14_Witness ==
  /\ exPc = "vision"
  /\ Len(visionCalls) = 2
  /\ visionCalls[1].outcome # "pending"
  /\ Cardinality(inFlight) = 1

SomeCallFailed == \E i \in 1..Len(visionCalls) : visionCalls[i].outcome = "failed"

OwnDescriptions(key) ==
  {Get(ExportImagesOf[i], "_description").v :
     i \in {j \in 1..Len(ExportImagesOf) :
              /\ hasOwnDescription(ExportImagesOf[j])
              /\ Truthy(Get(ExportImagesOf[j], "base64"))
              /\ imageKey(ExportImagesOf[j]) = key}}

\* the step in which call i fails leaves the placeholder under its key, unless
\* a later image of the same key brings its own description
PlaceholderRecorded(i) ==
  /\ i \in DOMAIN visionCalls
  /\ visionCalls[i].outcome = "pending"
  /\ i \in DOMAIN visionCalls'
  /\ visionCalls'[i].outcome = "failed"
  => /\ visionCalls[i].key \in DOMAIN descriptions'
     /\ descriptions'[visionCalls[i].key]
          \in {NoCaption} \cup OwnDescriptions(visionCalls[i].key)

\* C15: a failing vision call never aborts the export: the placeholder is
\* recorded for the key, the loop goes on over the later images, and the
\* request ends with the document, every vision call returning or failing
C15_VisionFailureTolerated ==
  /\ [](SomeCallFailed => exResponse = Undef \/ exResponse.status = 200)
  /\ [][\A i \in 1..MaxImages + 1 : PlaceholderRecorded(i)]_vars
  /\ [](ExportSent /\ ~exRequest.disableDescriptions
          => exCursor = Len(ExportImagesOf) + 1)
  /\ [](exPc = "vision" => <>ExportSent)

\* the first call failed, the second image was described, the document was sent
C15_Witness ==
  /\ ExportSent
  /\ Len(visionCalls) = 2
  /\ visionCalls[1].outcome = "failed"
  /\ visionCalls[2].outcome = "caption"
  /\ descriptions[visionCalls[1].key] = NoCaption

----------------------------------------------------------------------------
(* Claims about the segments of the returned document *)

segmentsOfLine(line) == elementsOf(Get(line, "segments"))

HasText(segment) == IsStr(Get(segment, "text")) /\ Trim(Get(segment, "text").v) # ""

\* C22: whitespace-only text is never materialized as a segment: every
\* segment of every line of every page returned by normalizeMistralResponse
\* has a text that is non-empty after trimming.
C22_NoBlankSegment ==
  Returned =>
    \A i \in 1..Len(resultPages) :
      \A j \in 1..Len(linesOf(resultPages[i])) :
        \A k \in 1..Len(segmentsOfLine(linesOf(resultPages[i])[j])) :
          HasText(segmentsOfLine(linesOf(resultPages[i])[j])[k])

\* the one raw segment of a styled line
rawSegment == Get(lineArg, "segments").v[1]

UnderlineFlagged(segment) ==
  \E k \in {"underline", "isUnderline", "underlined"} : Truthy(Get(segment, k))
StrikeFlagged(segment) ==
  \E k \in {"strikethrough", "strike", "isStrike", "isStrikethrough"} : Truthy(Get(segment, k))

decorationOf(line) == segStyle(segmentsOf(line)[1], "textDecoration").v

\* C23: a raw segment that carries an underline flag gets a textDecoration
\* containing underline and one that carries a strike flag gets one
\* containing line-through, with or without a nested style record; both
\* flags give "underline line-through"
C23_FlagsDecorate ==
  linePc = "once" /\ lineArg \in StyledLines =>
    /\ UnderlineFlagged(rawSegment) => Includes(decorationOf(lineOut), "underline")
    /\ StrikeFlagged(rawSegment) => Includes(decorationOf(lineOut), "line-through")
    /\ UnderlineFlagged(rawSegment) /\ StrikeFlagged(rawSegment)
         => decorationOf(lineOut) = "underline line-through"

\* the font size a raw segment gives: its own, else the one of its style record
rawFontSize(segment) ==
  Coalesce(Get(segment, "fontSize"), OptGet(Get(segment, "style"), "fontSize"))

SizeUnits == {"px", "pt", "em", "%"}

\* a number followed by a unit
CarriesUnit(text) ==
  \E u \in SizeUnits :
    /\ EndsWith(text, u)
    /\ Len(text) > Len(u)
    /\ IsDecimal(Substring2(text, 0, Len(text) - Len(u)))

\* the size the claim gives a raw value
expectedFontSize(raw) ==
  IF IsNum(raw) THEN IntToString(raw.v) \o "px"
  ELSE IF IsStr(raw) /\ IsDecimal(Trim(raw.v)) THEN Trim(raw.v) \o "px"
  ELSE IF IsStr(raw) /\ CarriesUnit(Trim(raw.v)) THEN Trim(raw.v)
  ELSE IntToString(fallbackFontSize) \o "px"

\* C24: the normalized fontSize is a pixel-suffixed number or a string that
\* carried a unit: numbers and numeric strings get the px suffix, strings
\* with a unit pass through, every other value resolves to 16px
C24_FontSizeNormalized ==
  linePc = "once" /\ lineArg \in StyledLines =>
    segStyle(segmentsOf(lineOut)[1], "fontSize") = Str(expectedFontSize(rawFontSize(rawSegment)))

----------------------------------------------------------------------------
(* Claims about the paragraphs of the export *)

alignOf(line) == Get(line, "align").v

\* how the paragraph of a line opens according to its alignment and position
HasIndent(part, line) ==
  StartsWith(part, "<p style=\"margin-left:"
                     \o IntToString(IF positionOf(line, "x") < 400
                                    THEN positionOf(line, "x") ELSE 400) \o "px\">")
HasAlignment(part, line) ==
  StartsWith(part, "<p style=\"text-align:" \o alignOf(line) \o "\">")

IndentedAsPlaced(part, line) ==
  /\ alignOf(line) = "left" /\ positionOf(line, "x") # 0 => HasIndent(part, line)
  /\ alignOf(line) \in {"center", "right", "justify"} => HasAlignment(part, line)

IndentedIn(section, lines) ==
  \A i \in 1..Len(lines) : \A k \in 1..Len(section) :
    ShowsLine(section[k], lines[i]) => IndentedAsPlaced(section[k], lines[i])

IndentedOnEveryPage(sections) ==
  \A p \in 1..Len(exRequest.pages) :
    IndentedIn(sections[p], Get(exRequest.pages[p], "lines").v)

\* C25: in the re-flow a rendered line that is aligned left and has a nonzero
\* horizontal position x gets a margin-left of min(x, 400) pixels, and a line
\* aligned center, right or justify gets a text-align style and no indent
C25_IndentClamped == Reflowed => IndentedOnEveryPage(sectionsOf(bodyParts))

----------------------------------------------------------------------------
(* Claims about the top-level tables and the shape of the document *)

\* the top-level tables of the payload, normalized
topLevelTablesOf(payload) ==
  IF IsObj(payload) THEN normalizeTables(Get(payload, "tables")) ELSE <<>>

\* the pages carry the tables of their entries, the first one followed by `top`
TablesPlaced(pages, kept, top) ==
  /\ Len(pages) = Len(kept)
  /\ tablesOf(pages[1]) = entryTables(kept[1]) \o top
  /\ \A i \in 2..Len(pages) : tablesOf(pages[i]) = entryTables(kept[i])

\* the one page made to hold `top`
TablesAlone(pages, top) ==
  /\ Len(pages) = 1
  /\ Get(pages[1], "number") = Num(1)
  /\ Get(pages[1], "lines") = Arr(<<>>)
  /\ Get(pages[1], "images") = Arr(<<>>)
  /\ Get(pages[1], "tables") = Arr(top)

TopLevelPlaced(pages, kept, top) ==
  Len(top) > 0 =>
    IF Len(kept) > 0 THEN TablesPlaced(pages, kept, top) ELSE TablesAlone(pages, top)

\* C26: the top-level tables of the payload are appended, in order, after the
\* first assembled page's own tables and to no other page; when no page was
\* assembled one page (number 1, no lines, no images) is synthesized whose
\* tables are exactly the top-level tables
C26_TopLevelTablesOnFirstPage ==
  Returned => TopLevelPlaced(resultPages, keptEntries, topLevelTablesOf(mistralPayload))

\* two pages with a table each and top-level tables: the first page holds its
\* table and then the top-level ones, the second only its own
C26_Witness ==
  /\ Returned
  /\ Len(topLevelTablesOf(mistralPayload)) >= 1
  /\ Len(resultPages) = 2
  /\ Len(entryTables(keptEntries[1])) >= 1
  /\ Len(tablesOf(resultPages[1]))
       = Len(entryTables(keptEntries[1])) + Len(topLevelTablesOf(mistralPayload))
  /\ tablesOf(resultPages[2]) = entryTables(keptEntries[2])
  /\ Len(tablesOf(resultPages[2])) >= 1

HasFields(x, fields) == IsObj(x) /\ \A f \in fields : Get(x, f) # Undef

SegmentConforms(segment) ==
  /\ HasFields(segment, {"text", "style", "meta"})
  /\ HasFields(Get(segment, "meta"), {"position"})
  /\ HasFields(Get(Get(segment, "meta"), "position"), {"x", "y"})

LineConforms(line) ==
  /\ HasFields(line, {"y", "x", "align", "segments"})
  /\ \A k \in 1..Len(segmentsOfLine(line)) : SegmentConforms(segmentsOfLine(line)[k])

PageConforms(page) ==
  /\ HasFields(page, {"number", "lines", "tables", "images"})
  /\ \A j \in 1..Len(linesOf(page)) : LineConforms(linesOf(page)[j])

\* C27: every document returned by normalizeMistralResponse conforms to the
\* canonical schema on every path: every Page has number, lines, tables and
\* images, every Line has y, x, align and segments, every Segment has
\* meta.position with x and y
C27_SchemaOnEveryPath ==
  Returned => \A i \in 1..Len(resultPages) : PageConforms(resultPages[i])

----------------------------------------------------------------------------
(* Claims about the captions of images without an id *)

\* the parts of a section that follow its "<br/>": one per shown image when
\* descriptions are enabled
imagePartsIn(section) ==
  IF \E i \in 1..Len(section) : section[i] = "<br/>"
  THEN SubSeq(section, SetMin({i \in 1..Len(section) : section[i] = "<br/>"}) + 1,
              Len(section))
  ELSE <<>>

FromVision(part) == StartsWith(part, "<p><strong>Bild:</strong> cap ")

\* an image without an id that carries a caption of the vision model carries
\* the one made from its own payload
OwnCaption(part, img) ==
  ~Truthy(Get(img, "id")) /\ Truthy(Get(img, "base64")) /\ FromVision(part)
    => part = captionPart("cap " \o Get(img, "base64").v)

OwnCaptionsIn(parts, valid) ==
  /\ Len(parts) = Len(valid)
  /\ \A k \in 1..Len(valid) : OwnCaption(parts[k], valid[k])

OwnCaptionsOnEveryPage(sections) ==
  \A p \in 1..Len(exRequest.pages) :
    OwnCaptionsIn(imagePartsIn(sections[p]), validImagesOf(exRequest.pages[p]))

\* C28: in an export with descriptions enabled every shown image whose
\* caption comes from the vision model carries a caption obtained from a call
\* on its own payload; two distinct images without an id never end up with
\* the caption generated for the other
C28_CaptionFromOwnPayload ==
  ExportSent /\ Len(exRequest.pages) > 0 /\ ~exRequest.disableDescriptions
    => OwnCaptionsOnEveryPage(sectionsOf(bodyParts))

----------------------------------------------------------------------------
(* Browser client: public/app.js *)

MaxUploads == 2         \* /api/extract requests one session starts
MaxDescribes == 1       \* /api/describe-image requests one session starts
MaxUiExports == 1       \* /api/export-docx requests one session starts
MaxUiImages == 1        \* images of the extracted page

Loading == "Beschreibung wird geladen..."
NeedPdf == [message |-> "Bitte zuerst eine PDF extrahieren.", tone |-> "error"]
NeedKey == [message |-> "Bitte API-Key speichern, um zu konvertieren.", tone |-> "error"]

\* an image of an extracted page; "" stands for a field that is not set
uiImage(base64) ==
  [base64 |-> base64, _description |-> "", _replaceWithDescription |-> FALSE,
   _removed |-> FALSE]

UiImageLists == SeqsUpTo({uiImage("QUFB"), uiImage("")}, MaxUiImages)

\* what /api/extract answers with: no page, or one page with its images
UiPages == {<<>>} \cup {<<[number |-> 1, images |-> is]>> : is \in UiImageLists}

\* the JSON of a successful answer to upload n; `source` tells the answers
\* of different uploads apart
ExtractData(n) ==
  {[source |-> n, html |-> h, pages |-> ps] :
     h \in {"", "<p>doc</p>"}, ps \in UiPages}

InitUi ==
  /\ lastResult = Null
  /\ storedKey \in BOOLEAN
  /\ statusEl = IF storedKey
                THEN [message |-> "API-Key aus dem Browser geladen. Bereit für deine PDF.",
                      tone |-> "success"]
                ELSE [message |-> "Bitte zuerst deinen API-Key speichern, um zu konvertieren.",
                      tone |-> "neutral"]
  /\ previewEl = "initial" /\ textOutput = ""
  /\ uploads = 0 /\ describes = 0
  /\ extractFetches = {} /\ describeFetches = {} /\ exportFetches = {}
  /\ exportsSent = <<>> /\ extractions = <<>>
  /\ ParseIdle /\ LineIdle /\ ExtractIdle /\ TableIdle /\ ExportIdle

serverIdle == UNCHANGED <<parseVars, lineVars, extractVars, tableVars, exportVars>>

\* renderPreview(pages)
renderPreview(pages) == IF Len(pages) = 0 THEN "empty" ELSE "pages"

\* the click on "save API key"
SaveApiKey ==
  /\ \E typed \in BOOLEAN :
       IF ~typed
       THEN /\ statusEl' = [message |-> "Bitte einen API-Key eingeben.", tone |-> "error"]
            /\ UNCHANGED storedKey
       ELSE /\ storedKey' = TRUE
            /\ statusEl' = [message |-> "API-Key gespeichert. Jetzt kannst du extrahieren.",
                            tone |-> "success"]
  /\ UNCHANGED <<lastResult, previewEl, textOutput, uploads, describes, extractFetches,
                 describeFetches, exportFetches, exportsSent, extractions>>
  /\ serverIdle

\* uploadPdf up to its fetch
UploadPdf ==
  /\ \E hasFile \in BOOLEAN :
       IF ~hasFile
       THEN /\ statusEl' = [message |-> "Bitte wähle eine PDF-Datei aus.", tone |-> "error"]
            /\ UNCHANGED <<uploads, extractFetches>>
       ELSE IF ~storedKey
       THEN /\ statusEl' = NeedKey
            /\ UNCHANGED <<uploads, extractFetches>>
       ELSE /\ uploads < MaxUploads
            /\ statusEl' = [message |-> "Extrahiere Text...", tone |-> "neutral"]
            /\ uploads' = uploads + 1
            /\ extractFetches' = extractFetches \cup {uploads + 1}
  /\ UNCHANGED <<lastResult, previewEl, textOutput, storedKey, describes,
                 describeFetches, exportFetches, exportsSent, extractions>>
  /\ serverIdle

\* handleResult on an answer that is ok
handleResult(data) ==
  /\ lastResult' = data
  /\ previewEl' = IF data.html # "" THEN "html" ELSE renderPreview(data.pages)
  /\ textOutput' = IF data.html # "" THEN "text of the html"
                   ELSE IF Len(data.pages) > 0 THEN "text of the pages" ELSE ""
  /\ statusEl' = [message |-> "Extrahiert", tone |-> "success"]

\* the fetch of uploadPdf resolves with an answer that is ok
ExtractResolve ==
  /\ \E n \in extractFetches :
       /\ \E data \in ExtractData(n) : handleResult(data)
       /\ extractFetches' = extractFetches \ {n}
  /\ extractions' = Append(extractions, "ok")
  /\ UNCHANGED <<storedKey, uploads, describes, describeFetches, exportFetches, exportsSent>>
  /\ serverIdle

\* the fetch rejects or the answer is not ok: the catch block of uploadPdf
ExtractReject ==
  /\ \E n \in extractFetches : extractFetches' = extractFetches \ {n}
  /\ statusEl' = [message |-> "PDF konnte nicht entziffert werden.", tone |-> "error"]
  /\ previewEl' = renderPreview(<<>>)
  /\ textOutput' = ""
  /\ extractions' = Append(extractions, "failed")
  /\ UNCHANGED <<lastResult, storedKey, uploads, describes, describeFetches,
                 exportFetches, exportsSent>>
  /\ serverIdle

\* the images the preview shows with their buttons
shownImages ==
  IF previewEl = "pages" /\ lastResult # Null /\ Len(lastResult.pages) > 0
  THEN {i \in 1..Len(lastResult.pages[1].images) : ~lastResult.pages[1].images[i]._removed}
  ELSE {}

\* `lastResult` with image i of its page changed
withImage(result, i, img) ==
  [result EXCEPT !.pages = <<[result.pages[1] EXCEPT !.images[i] = img]>>]

withDescription(img, text) == [img EXCEPT !._description = text, !._replaceWithDescription = TRUE]

\* the click on "Nicht exportieren"
RemoveClick ==
  /\ \E i \in shownImages :
       lastResult' = withImage(lastResult, i,
                       [lastResult.pages[1].images[i] EXCEPT !._removed = TRUE])
  /\ previewEl' = renderPreview(lastResult.pages)
  /\ UNCHANGED <<statusEl, textOutput, storedKey, uploads, describes, extractFetches,
                 describeFetches, exportFetches, exportsSent, extractions>>
  /\ serverIdle

\* the click on "Bildbeschreibung einfügen" and requestImageDescription up to
\* its fetch
DescribeClick ==
  /\ \E i \in shownImages :
       IF ~storedKey
       THEN /\ lastResult' = withImage(lastResult, i,
                               withDescription(lastResult.pages[1].images[i],
                                         "API-Key fehlt. Bitte zuerst Schlüssel speichern."))
            /\ statusEl' = NeedKey
            /\ UNCHANGED <<describes, describeFetches>>
       ELSE IF lastResult.pages[1].images[i].base64 = ""
       THEN /\ lastResult' = withImage(lastResult, i,
                               withDescription(lastResult.pages[1].images[i],
                                         "Keine Bilddaten verfügbar."))
            /\ UNCHANGED <<statusEl, describes, describeFetches>>
       ELSE /\ describes < MaxDescribes
            /\ lastResult' = withImage(lastResult, i,
                               withDescription(lastResult.pages[1].images[i], Loading))
            /\ describes' = describes + 1
            /\ describeFetches' = describeFetches
                 \cup {[n |-> describes + 1, source |-> lastResult.source, image |-> i]}
            /\ UNCHANGED statusEl
  /\ previewEl' = renderPreview(lastResult.pages)
  /\ UNCHANGED <<textOutput, storedKey, uploads, extractFetches, exportFetches,
                 exportsSent, extractions>>
  /\ serverIdle

\* requestImageDescription after its fetch: the description is written to the
\* image the click was made on, and the pages of `lastResult` are rendered
describeSettled(f, text) ==
  /\ describeFetches' = describeFetches \ {f}
  /\ lastResult' = IF lastResult.source = f.source
                   THEN withImage(lastResult, f.image,
                                  withDescription(lastResult.pages[1].images[f.image], text))
                   ELSE lastResult
  /\ previewEl' = renderPreview(lastResult.pages)
  /\ UNCHANGED <<statusEl, textOutput, storedKey, uploads, describes, extractFetches,
                 exportFetches, exportsSent, extractions>>
  /\ serverIdle

DescribeResolve ==
  \E f \in describeFetches :
    \E description \in {"a picture", ""} :
      describeSettled(f, IF description # "" THEN description
                         ELSE "Keine Beschreibung erhalten.")

DescribeReject ==
  \E f \in describeFetches : describeSettled(f, "Beschreibung fehlgeschlagen.")

\* `payloadPages` of exportWord
payloadPages(pages) == pages

\* exportWord up to its fetch
ExportWord ==
  /\ IF lastResult = Null \/ (Len(lastResult.pages) = 0 /\ lastResult.html = "")
     THEN /\ statusEl' = NeedPdf
          /\ UNCHANGED <<exportFetches, exportsSent>>
     ELSE IF ~storedKey
     THEN /\ statusEl' = NeedKey
          /\ UNCHANGED <<exportFetches, exportsSent>>
     ELSE /\ Len(exportsSent) < MaxUiExports
          /\ statusEl' = [message |-> "Exportiere Word...", tone |-> "neutral"]
          /\ \E disabled \in BOOLEAN :
               exportsSent' = Append(exportsSent,
                                [pages |-> payloadPages(lastResult.pages),
                                 html |-> lastResult.html,
                                 source |-> lastResult.source,
                                 disableDescriptions |-> disabled])
          /\ exportFetches' = exportFetches \cup {Len(exportsSent) + 1}
  /\ UNCHANGED <<lastResult, previewEl, textOutput, storedKey, uploads, describes,
                 extractFetches, describeFetches, extractions>>
  /\ serverIdle

\* the fetch of exportWord is settled: the download, or the catch block
ExportSettle ==
  /\ \E n \in exportFetches : exportFetches' = exportFetches \ {n}
  /\ \E ok \in BOOLEAN :
       statusEl' = IF ok THEN [message |-> "Word-Export erstellt.", tone |-> "success"]
                   ELSE [message |-> "Export fehlgeschlagen.", tone |-> "error"]
  /\ UNCHANGED <<lastResult, previewEl, textOutput, storedKey, uploads, describes,
                 extractFetches, describeFetches, exportsSent, extractions>>
  /\ serverIdle

NextUi ==
  \/ SaveApiKey \/ UploadPdf \/ ExtractResolve \/ ExtractReject
  \/ RemoveClick \/ DescribeClick \/ DescribeResolve \/ DescribeReject
  \/ ExportWord \/ ExportSettle

SpecUi == InitUi /\ [][NextUi]_vars

----------------------------------------------------------------------------
(* Claims about the browser client *)

imagesSent(body) ==
  IF Len(body.pages) = 0 THEN <<>> ELSE body.pages[1].images

\* C29: for every interleaving of the describe-image click, its pending
\* /api/describe-image request and the export-word click, no export request
\* carries the transient text "Beschreibung wird geladen..." as the
\* description of an image
C29_NoLoadingTextExported ==
  \A k \in 1..Len(exportsSent) :
    \A i \in 1..Len(imagesSent(exportsSent[k])) :
      imagesSent(exportsSent[k])[i]._description # Loading

LastExtractionFailed ==
  Len(extractions) > 0 /\ extractions[Len(extractions)] = "failed"

\* C30: after an extraction attempt has failed, and until a later one
\* succeeds, a click on export-word sends no export request and reports that
\* a PDF must be extracted first
C30_NoExportAfterFailedExtraction ==
  [][LastExtractionFailed /\ ExportWord
       => exportsSent' = exportsSent /\ statusEl' = NeedPdf]_vars

====
